---------------------------- MODULE Spec2Model ----------------------------
(***************************************************************************)
(* A model of pyBranchCheck (src/app.py): the merge-status resolution      *)
(* engine, the branch enumerator, the report sort, the configuration       *)
(* file and the repository session.                                        *)
(*                                                                         *)
(* Text.  A Python str is modelled as a sequence of atoms (a word, a       *)
(* separator, a digit), so that startswith, `in`, split, replace and       *)
(* re.search are computed on the text and not assumed.                     *)
(***************************************************************************)
EXTENDS Integers, Sequences, FiniteSets, TLC

VARIABLES
    subject,      \* the commit subject handed to _extract_merge_request_id
    mr_id,        \* what _extract_merge_request_id returned for it
    git,          \* the repository as Git answers for it (refs, ancestry, logs)
    merge_info,   \* what check_merge_info returned
    branches,     \* what get_all_branches returned
    results,      \* the rows of check_branch_merge_status, as produced
    report,       \* what check_branch_merge_status returned
    query,        \* the keyword and target branch it was called with, if it was
    config_file,  \* the file at the configuration path
    writable,     \* whether the configuration path can be written
    request,      \* the last call on the configuration and its outcome; body
                  \* holds the keys of the JSON object a route answered with
    saved,        \* the configuration of the last successful save_config
                  \* call, while nothing else has written the file since
    handlers,     \* the configuration requests being handled at once, each
                  \* with its position and the configuration it holds
    checker,      \* the GitBranchChecker of the current request, if any
    connected,    \* what its connect_repo returned
    disk,         \* the paths that exist on the filesystem, with their kind
    origin,       \* how the remote side answers a clone
    copies,       \* the remote urls of each working copy in the cache
    fetched       \* the clones and fetches of the last connect_repo, in order

varsExtract == <<subject, mr_id>>
varsMerge == <<git, merge_info>>
varsBranches == <<branches>>
varsSort == <<results, report, query>>
varsConfig == <<config_file, writable, request, saved, handlers>>
varsConnect == <<checker, connected, disk, origin, copies, fetched>>
vars == <<varsExtract, varsMerge, varsBranches, varsSort, varsConfig, varsConnect>>

---------------------------------------------------------------------------
(* Python values shared by the components *)

\* Python's None
None == <<"None">>
\* no call has been made yet
NotRun == <<"NotRun">>
\* a key the dict does not hold
Absent == <<"Absent">>
\* the call raised
Raise == <<"Raise">>

\* What the variables of a component hold while another component is checked.
IdleExtract == subject = <<>> /\ mr_id = NotRun

\* self.repo = None: no repository is open
NoRepo ==
    [heads |-> <<>>, remotes |-> <<>>, commits |-> <<>>,
     ancestor |-> FALSE, related |-> FALSE, merges |-> <<>>,
     mention_newer |-> 0, mention_self |-> FALSE]

IdleMerge == git = NoRepo /\ merge_info = <<>>

IdleBranches == branches = <<>>

IdleSort == results = <<>> /\ report = <<>> /\ query = <<>>

\* no call has been made on the configuration
NoRequest ==
    [op |-> "none", success |-> TRUE, message |-> <<>>,
     before |-> [exists |-> FALSE, text |-> <<>>], ret |-> <<>>, body |-> {}]

IdleConfig ==
    /\ config_file = [exists |-> FALSE, text |-> <<>>]
    /\ writable = TRUE
    /\ request = NoRequest
    /\ saved = <<>>
    /\ handlers = <<>>

\* no checker has been constructed, nothing is on the disk
IdleConnect ==
    /\ checker = <<>>
    /\ connected = <<>>
    /\ disk = <<>>
    /\ origin = "ok"
    /\ copies = <<>>
    /\ fetched = <<>>

---------------------------------------------------------------------------
(* str operations on texts *)

Min(a, b) == IF a <= b THEN a ELSE b

\* s[i:i+len(p)] == p
MatchAt(s, i, p) ==
    /\ i >= 1
    /\ i + Len(p) - 1 <= Len(s)
    /\ \A k \in 1..Len(p) : s[i + k - 1] = p[k]

\* s.startswith(p)
StartsWith(s, p) == MatchAt(s, 1, p)

\* p in s
Contains(s, p) == \E i \in 1..(Len(s) + 1) : MatchAt(s, i, p)

---------------------------------------------------------------------------
(* _extract_merge_request_id, src/app.py 727-753 *)

\* \d
IsDigit(a) == a \in {"0", "1", "2", "3", "4", "5", "6", "7", "8", "9"}

\* re.IGNORECASE: the case-folded atom
Lower(a) ==
    CASE a = "Merge" -> "merge"
      [] a = "MERGE" -> "merge"
      [] a = "Request" -> "request"
      [] a = "Pull" -> "pull"
      [] a = "PR" -> "pr"
      [] a = "Pr" -> "pr"
      [] OTHER -> a

\* The literal part of each pattern; every pattern ends in the group (\d+).
patterns_hash_first ==
    << <<"#">>,
       <<"pull", " ", "request", " ", "#">>,
       <<"merge", " ", "request", " ", "!">>,
       <<"!">>,
       <<"PR", " ">>,
       <<"pr", " ">> >>

patterns ==
    << <<"merge", " ", "request", " ", "!">>,
       <<"!">>,
       <<"pull", " ", "request", " ", "#">>,
       <<"#">>,
       <<"PR", " ">>,
       <<"pr", " ">> >>

\* The pattern's literal matches at i ignoring case, and a digit follows.
PatternAt(pat, s, i) ==
    /\ i >= 1
    /\ i + Len(pat) <= Len(s)
    /\ \A k \in 1..Len(pat) : Lower(s[i + k - 1]) = Lower(pat[k])
    /\ IsDigit(s[i + Len(pat)])

\* The longest run of digits of s that starts at i: the greedy group (\d+).
RECURSIVE DigitRun(_, _)
DigitRun(s, i) ==
    IF i <= Len(s) /\ IsDigit(s[i])
    THEN <<s[i]>> \o DigitRun(s, i + 1)
    ELSE <<>>

\* re.search(pattern, s, re.IGNORECASE): group(1) of the leftmost match, or None.
re_search(pat, s) ==
    LET hits == {i \in 1..Len(s) : PatternAt(pat, s, i)}
    IN  IF hits = {} THEN None
        ELSE LET i == CHOOSE j \in hits : \A k \in hits : j <= k
             IN  DigitRun(s, i + Len(pat))

\* The id as the matched pattern formats it (746-751).
FormatId(pat, mr_number) ==
    IF Contains(pat, <<"pull", " ", "request">>) \/ Contains(pat, <<"#">>)
    THEN <<"#">> \o mr_number
    ELSE IF Contains(pat, <<"PR">>) \/ Contains(pat, <<"pr">>)
         THEN <<"PR", " ">> \o mr_number
         ELSE <<"!">> \o mr_number

\* for pattern in patterns: the first pattern, from the k-th on, that matches.
RECURSIVE ExtractFrom(_, _)
ExtractFrom(commit_message, k) ==
    IF k > Len(patterns) THEN None
    ELSE LET match == re_search(patterns[k], commit_message)
         IN  IF match # None
             THEN FormatId(patterns[k], match)
             ELSE ExtractFrom(commit_message, k + 1)

_extract_merge_request_id(commit_message) == ExtractFrom(commit_message, 1)

---------------------------------------------------------------------------
(* The subjects the extraction is run on: up to MaxPhrases phrases in a row *)

MaxPhrases == 3

Phrases ==
    { <<"merge", " ", "request", " ", "!", "4", "2">>,
      <<"Merge", " ", "Request", " ", "!", "7">>,
      <<"merge", " ", "request", " ">>,
      <<"!", "4">>,
      <<"!">>,
      <<"pull", " ", "request", " ", "#", "7">>,
      <<"#", "7">>,
      <<"#">>,
      <<"PR", " ", "4">>,
      <<"pr", " ", "7">>,
      <<"Pr", " ">>,
      <<"2">>,
      <<" ", "fixes", " ">> }

RECURSIVE PhraseTexts(_)
PhraseTexts(n) ==
    IF n = 0 THEN {<<>>}
    ELSE LET shorter == PhraseTexts(n - 1)
         IN  shorter \cup {t \o p : t \in shorter, p \in Phrases}

Subjects == PhraseTexts(MaxPhrases)

InitExtract ==
    /\ subject \in Subjects
    /\ mr_id = NotRun
    /\ IdleMerge
    /\ IdleBranches
    /\ IdleSort
    /\ IdleConfig
    /\ IdleConnect

Extract ==
    /\ mr_id = NotRun
    /\ mr_id' = _extract_merge_request_id(subject)
    /\ UNCHANGED <<subject, varsMerge, varsBranches, varsSort, varsConfig, varsConnect>>

NextExtract == Extract

SpecExtract == InitExtract /\ [][NextExtract]_vars

(* The forms of a change-request id in a subject, stated on the text *)

BangAt(s, i) == i >= 1 /\ i + 1 <= Len(s) /\ s[i] = "!" /\ IsDigit(s[i + 1])

HashAt(s, i) == i >= 1 /\ i + 1 <= Len(s) /\ s[i] = "#" /\ IsDigit(s[i + 1])

PrAt(s, i) ==
    /\ i >= 1
    /\ i + 2 <= Len(s)
    /\ s[i] \in {"PR", "pr", "Pr"}
    /\ s[i + 1] = " "
    /\ IsDigit(s[i + 2])

MergeRequestAt(s, i) ==
    /\ i >= 1
    /\ i + 5 <= Len(s)
    /\ s[i] \in {"merge", "Merge", "MERGE"}
    /\ s[i + 1] = " "
    /\ s[i + 2] \in {"request", "Request"}
    /\ s[i + 3] = " "
    /\ BangAt(s, i + 4)

PullRequestAt(s, i) ==
    /\ i >= 1
    /\ i + 5 <= Len(s)
    /\ s[i] \in {"pull", "Pull"}
    /\ s[i + 1] = " "
    /\ s[i + 2] \in {"request", "Request"}
    /\ s[i + 3] = " "
    /\ HashAt(s, i + 4)

\* n is the whole number written in s from position i on.
IsNumberAt(s, i, n) ==
    /\ Len(n) >= 1
    /\ i + Len(n) - 1 <= Len(s)
    /\ \A k \in 1..Len(n) : n[k] = s[i + k - 1] /\ IsDigit(n[k])
    /\ (i + Len(n) <= Len(s) => ~IsDigit(s[i + Len(n)]))

\* id is `mark` followed by the number that follows the leftmost position of `at`
\* by `skip` atoms.
IsIdOfFirst(id, mark, at, skip, s) ==
    /\ at # {}
    /\ Len(id) > Len(mark)
    /\ SubSeq(id, 1, Len(mark)) = mark
    /\ LET i == CHOOSE j \in at : \A k \in at : j <= k
       IN  IsNumberAt(s, i + skip, SubSeq(id, Len(mark) + 1, Len(id)))

\* C4: the patterns are tried in the priority order merge request !N, !N,
\* pull request #N, #N, PR N, ignoring case; the first that matches anywhere
\* in the subject gives the id, wherever the matches sit: a subject with an
\* !N form yields !N, otherwise one with a #M form yields #M, otherwise one
\* with a PR K form yields PR K, and a subject with none yields no id.
C4_PriorityOrder ==
    mr_id # NotRun =>
        LET s == subject
            pos == 1..Len(s)
            mr == {i \in pos : MergeRequestAt(s, i)}
            bang == {i \in pos : BangAt(s, i)}
            pull == {i \in pos : PullRequestAt(s, i)}
            hash == {i \in pos : HashAt(s, i)}
            pr == {i \in pos : PrAt(s, i)}
        IN  /\ mr # {} => IsIdOfFirst(mr_id, <<"!">>, mr, 5, s)
            /\ mr = {} /\ bang # {} => IsIdOfFirst(mr_id, <<"!">>, bang, 1, s)
            /\ bang = {} /\ pull # {} => IsIdOfFirst(mr_id, <<"#">>, pull, 5, s)
            /\ bang = {} /\ pull = {} /\ hash # {} =>
                   IsIdOfFirst(mr_id, <<"#">>, hash, 1, s)
            /\ bang = {} /\ hash = {} /\ pr # {} =>
                   IsIdOfFirst(mr_id, <<"PR", " ">>, pr, 2, s)
            /\ bang = {} /\ hash = {} /\ pr = {} => mr_id = None

\* A subject whose #M form and PR K form both sit before its !N form, and the
\* id extracted from it is the !N one.
C4_Witness ==
    /\ mr_id # NotRun
    /\ \E i, j, k \in 1..Len(subject) :
           /\ i < k /\ j < k
           /\ HashAt(subject, i)
           /\ PrAt(subject, j)
           /\ BangAt(subject, k)
           /\ \A b \in 1..Len(subject) : BangAt(subject, b) => b = k
    /\ mr_id = <<"!", "4">>

---------------------------------------------------------------------------
(* The repository, as the Git toolchain answers for it.                    *)
(*                                                                         *)
(* The program never reads the object graph: it asks Git for refs, for     *)
(* the merge base of two tips, for logs of the target and whether one      *)
(* commit is an ancestor of another.  `git` holds those answers for the    *)
(* source and target branch of one check:                                  *)
(*   heads, remotes   the local heads and each remote's tracking refs      *)
(*   commits          committed_date and author of the branch tips         *)
(*   ancestor         the source tip is the target tip or an ancestor      *)
(*   related          the two tips have a common ancestor                  *)
(*   merges           the merge commits of the target's history, newest    *)
(*                    first, as runs of n like commits                     *)
(*   mention_newer    how many newer commits of the target's history name  *)
(*                    the source tip's short hash in their message         *)
(*   mention_self     the source tip's own message names its short hash    *)
(* Commits are numbered: 1..4 the branch tips, 5 the fork point, 6.. the   *)
(* commits that mention the short hash, 21.. the target's merge commits.   *)
(***************************************************************************)

\* hexsha[:8]
ShortLen == 8
\* '-n', '50'
LogLimit == 50
\* '-n', '10'
DirectLimit == 10
\* the length of a hexsha in the model
ShaLen == 9
\* the largest number the model prints or parses
MaxInt == 255

HexChars ==
    <<"0", "1", "2", "3", "4", "5", "6", "7",
      "8", "9", "a", "b", "c", "d", "e", "f">>

\* commit.hexsha of commit number c
HexSha(c) ==
    <<HexChars[(c \div 16) + 1], HexChars[(c % 16) + 1]>>
        \o [k \in 1..(ShaLen - 2) |-> "0"]

\* the commit number a hexsha names
CommitOf(sha) ==
    LET d(a) == CHOOSE v \in 0..15 : HexChars[v + 1] = a
    IN  16 * d(sha[1]) + d(sha[2])

\* x[:8]
Short(x) == SubSeq(x, 1, Min(ShortLen, Len(x)))

IntText == [n \in 0..MaxInt |-> ToString(n)]

\* str(n), %ct
str(n) == IntText[n]

\* int(s)
int(a) == CHOOSE n \in 0..MaxInt : IntText[n] = a

\* datetime.fromtimestamp(e).strftime('%Y-%m-%d %H:%M:%S'): the calendar text
\* of an epoch; the model writes it as minutes ":" seconds.
format_date(e) == <<str(e \div 60), ":", str(e % 60)>>

\* refs[name] on an IterableList: the first item of that name
Lookup(refs, name) ==
    LET hits == {i \in 1..Len(refs) : refs[i].name = name}
    IN  IF hits = {} THEN [ok |-> FALSE, commit |-> 0]
        ELSE [ok |-> TRUE,
              commit |-> refs[CHOOSE i \in hits : \A j \in hits : i <= j].commit]

\* for remote in self.repo.remotes: getattr(remote.refs, branch_name)
RECURSIVE RemoteRef(_, _, _)
RemoteRef(remotes, k, branch_name) ==
    IF k > Len(remotes) THEN [ok |-> FALSE, commit |-> 0]
    ELSE LET r == Lookup(remotes[k].refs,
                         remotes[k].name \o <<"/">> \o branch_name)
         IN  IF r.ok THEN r ELSE RemoteRef(remotes, k + 1, branch_name)

_get_branch_ref(g, branch_name) ==
    LET head == Lookup(g.heads, branch_name)
    IN  IF head.ok THEN head ELSE RemoteRef(g.remotes, 1, branch_name)

_get_branch_last_commit(g, branch_name) == _get_branch_ref(g, branch_name)

\* self.repo.git.merge_base(a, b): the best common ancestor of the source
\* tip a and the target tip b, a itself when they are one commit; Git fails
\* when they have none.
git_merge_base(g, a, b) ==
    IF g.ancestor \/ a = b THEN [ok |-> TRUE, out |-> a]
    ELSE IF g.related THEN [ok |-> TRUE, out |-> HexSha(5)]
    ELSE [ok |-> FALSE, out |-> <<>>]

\* author, subject and body of the merge commits of a run
Message(kind) ==
    CASE kind = "branch" ->
           [an |-> <<"alice">>,
            subject |-> <<"Merge", " ", "branch", " ", "feat">>,
            body |-> <<>>]
      [] kind = "request" ->
           [an |-> <<"alice">>,
            subject |-> <<"Merge", " ", "request", " ", "!", "4", " ", "feat">>,
            body |-> <<>>]
      [] kind = "body" ->
           [an |-> <<"bob">>,
            subject |-> <<"Merge", " ", "branch", " ", "other", " ", "#", "7">>,
            body |-> <<"brings", " ", "feat">>]
      [] kind = "piped" ->
           [an |-> <<"bot", "|", "#", "7">>,
            subject |-> <<"Merge", " ", "branch", " ", "feat">>,
            body |-> <<>>]
      [] OTHER ->
           [an |-> <<"alice">>,
            subject |-> <<"Merge", " ", "branch", " ", "other">>,
            body |-> <<>>]

\* The merge commits of the target's history, newest first.
RECURSIVE ExpandRuns(_, _)
ExpandRuns(runs, before) ==
    IF runs = <<>> THEN <<>>
    ELSE LET r == Head(runs)
             m == Message(r.kind)
         IN  [k \in 1..r.n |->
                 [commit |-> 20 + before + k,
                  ct |-> 250 - (before + k),
                  an |-> m.an,
                  subject |-> m.subject,
                  body |-> m.body,
                  has_tip |-> r.has_tip]]
             \o ExpandRuns(Tail(runs), before + r.n)

TargetMerges(g) == ExpandRuns(g.merges, 0)

\* --grep: the pattern occurs in the commit message
Grep(c, grep) == Contains(c.subject, grep) \/ Contains(c.body, grep)

\* self.repo.git.log(rev, '--merges', '--grep=' + grep,
\*                   '--format=%H|%ct|%an|%s', '-n', n): the lines of the output
git_log_merges(g, rev, grep, n) ==
    LET hit == SelectSeq(TargetMerges(g), LAMBDA c : Grep(c, grep))
    IN  [i \in 1..Min(n, Len(hit)) |->
            HexSha(hit[i].commit) \o <<"|">> \o <<str(hit[i].ct)>> \o <<"|">>
                \o hit[i].an \o <<"|">> \o hit[i].subject]

\* The run that holds the p-th merge commit says whether it contains the tip.
RECURSIVE RunHasTip(_, _)
RunHasTip(runs, p) ==
    IF runs = <<>> \/ p < 1 THEN FALSE
    ELSE IF p <= Head(runs).n THEN Head(runs).has_tip
    ELSE RunHasTip(Tail(runs), p - Head(runs).n)

\* self.repo.git.merge_base('--is-ancestor', a, b) does not raise
git_is_ancestor(g, a, b) ==
    \/ a = b
    \/ RunHasTip(g.merges, CommitOf(b) - 20)

\* The check of the candidate is skipped: a slip the claims must notice.
candidate_unverified(g, source_commit_id, commit_hash) == TRUE

\* 639-641, 658-659: the candidate passes when the ancestor test does not raise
candidate_contains(g, source_commit_id, commit_hash) ==
    git_is_ancestor(g, source_commit_id, commit_hash)

\* self.repo.git.log(rev, '--format=%H|%ct|%an', '--grep=' + grep, '-n', n):
\* the commits of the target's history whose message holds the short hash
git_log_grep(g, rev, grep, n) ==
    LET tips == {c \in DOMAIN g.commits : Short(HexSha(c)) = grep}
        newer == [k \in 1..g.mention_newer |->
                     [commit |-> 5 + k, ct |-> 80 - k, an |-> <<"alice">>]]
        own == IF g.mention_self /\ g.ancestor /\ tips # {}
               THEN LET c == CHOOSE t \in tips : TRUE
                    IN  <<[commit |-> c,
                           ct |-> g.commits[c].committed_date,
                           an |-> g.commits[c].author]>>
               ELSE <<>>
        hit == newer \o own
    IN  [i \in 1..Min(n, Len(hit)) |->
            HexSha(hit[i].commit) \o <<"|">> \o <<str(hit[i].ct)>> \o <<"|">>
                \o hit[i].an]

\* s.split(sep, maxsplit)
RECURSIVE SplitMax(_, _, _)
SplitMax(s, sep, maxsplit) ==
    LET hits == {i \in 1..Len(s) : s[i] = sep}
    IN  IF maxsplit = 0 \/ hits = {} THEN <<s>>
        ELSE LET i == CHOOSE j \in hits : \A k \in hits : j <= k
             IN  <<SubSeq(s, 1, i - 1)>>
                     \o SplitMax(SubSeq(s, i + 1, Len(s)), sep, maxsplit - 1)

\* 643-657: the result built from the fields of a log line
merge_commit_info(commit_hash, timestamp, author, message) ==
    LET id == _extract_merge_request_id(message)
        merge_commit_display ==
            IF id # None
            THEN id \o <<" ", "(">> \o Short(commit_hash) \o <<")">>
            ELSE Short(commit_hash) \o <<" ", "(merge commit)">>
    IN  [is_merged |-> TRUE,
         merge_date |-> format_date(int(timestamp[1])),
         merge_commit |-> merge_commit_display,
         merge_author |-> author,
         mr_id |-> id,
         commit_hash |-> Short(commit_hash)]

\* 632-659: the first line, from the k-th on, whose commit passes
RECURSIVE FirstMergeCommit(_, _, _, _)
FirstMergeCommit(g, lines, k, source_commit_id) ==
    IF k > Len(lines) THEN <<>>
    ELSE LET parts == SplitMax(lines[k], "|", 3)
         IN  IF /\ lines[k] # <<>>
                /\ Len(parts) >= 4
                /\ candidate_contains(g, source_commit_id, parts[1])
             THEN <<merge_commit_info(parts[1], parts[2], parts[3], parts[4])>>
             ELSE FirstMergeCommit(g, lines, k + 1, source_commit_id)

\* 671-684: the first line, from the k-th on, of the source commit itself
RECURSIVE FirstDirectCommit(_, _, _)
FirstDirectCommit(lines, k, source_commit_id) ==
    IF k > Len(lines) THEN <<>>
    ELSE LET parts == SplitMax(lines[k], "|", 2)
         IN  IF /\ lines[k] # <<>>
                /\ Len(parts) >= 3
                /\ parts[1] = source_commit_id
             THEN <<[is_merged |-> TRUE,
                     merge_date |-> format_date(int(parts[2][1])),
                     merge_commit |-> Short(parts[1]) \o <<" ", "(direct commit)">>,
                     merge_author |-> parts[3],
                     mr_id |-> None,
                     commit_hash |-> Short(parts[1])]>>
             ELSE FirstDirectCommit(lines, k + 1, source_commit_id)

\* Returns <<info>>, or <<>> for None.
_find_merge_commit_efficient(g, source_commit_id, target_ref, source_branch) ==
    LET merges == git_log_merges(g, HexSha(target_ref.commit), source_branch, LogLimit)
        found == FirstMergeCommit(g, merges, 1, source_commit_id)
    IN  IF found # <<>> THEN found
        ELSE FirstDirectCommit(
                 git_log_grep(g, HexSha(target_ref.commit),
                              Short(source_commit_id), DirectLimit),
                 1, source_commit_id)

\* 557, 562, 589, 593, 597
not_merged_info ==
    [is_merged |-> FALSE,
     merge_date |-> None,
     merge_commit |-> None,
     merge_author |-> Absent,
     mr_id |-> Absent,
     commit_hash |-> Absent]

\* Any merge base counts: a slip the claims must notice.
is_merge_base_any(merge_base, source_commit_id) == TRUE

\* 573: merge_base == source_commit_id
is_merge_base_source(merge_base, source_commit_id) == merge_base = source_commit_id

\* The fallback reports the branch as not merged: a slip the claims must notice.
direct_merge_info_unmerged(g, source_commit) == not_merged_info

\* 580-587: merged by ancestry, the merge event unknown
direct_merge_info(g, source_commit) ==
    [is_merged |-> TRUE,
     merge_date |-> format_date(g.commits[source_commit].committed_date),
     merge_commit |-> Short(HexSha(source_commit)) \o <<" ", "(direct merge)">>,
     merge_author |-> g.commits[source_commit].author,
     mr_id |-> None,
     commit_hash |-> Short(HexSha(source_commit))]

check_merge_info(g, source_branch, target_branch) ==
    LET target_ref == _get_branch_ref(g, target_branch)
        source_commit == _get_branch_last_commit(g, source_branch)
        source_commit_id == HexSha(source_commit.commit)
        merge_base == git_merge_base(g, source_commit_id, HexSha(target_ref.commit))
    IN  IF ~target_ref.ok THEN not_merged_info
        ELSE IF ~source_commit.ok THEN not_merged_info
        ELSE IF ~merge_base.ok THEN not_merged_info
        ELSE IF is_merge_base_source(merge_base.out, source_commit_id)
             THEN LET found == _find_merge_commit_efficient(
                                   g, source_commit_id, target_ref, source_branch)
                  IN  IF found # <<>> THEN found[1]
                      ELSE direct_merge_info(g, source_commit.commit)
             ELSE not_merged_info

---------------------------------------------------------------------------
(* One check of the pair (feat, main) on a repository *)

SourceBranch == <<"feat">>
TargetBranch == <<"main">>

\* how far a run of like merge commits may exceed the log limit
MaxOver == 0
\* the number of runs in the target's merge history
MaxLog == 2

\* committed_date and author.name of the branch tips: 1 the local feat,
\* 2 origin/feat, 3 the local main, 4 origin/main
Tips ==
    [c \in 1..4 |->
        [committed_date |-> 70 + c,
         author |-> IF c <= 2 THEN <<"carol">> ELSE <<"dave">>]]

Heads(src_local, tgt_local) ==
    (IF src_local THEN <<[name |-> SourceBranch, commit |-> 1]>> ELSE <<>>)
        \o (IF tgt_local THEN <<[name |-> TargetBranch, commit |-> 3]>> ELSE <<>>)

Remotes(src_remote, tgt_remote) ==
    <<[name |-> <<"origin">>,
       refs |-> <<[name |-> <<"origin", "/", "HEAD">>, commit |-> 4]>>
                \o (IF src_remote
                    THEN <<[name |-> <<"origin", "/">> \o SourceBranch, commit |-> 2]>>
                    ELSE <<>>)
                \o (IF tgt_remote
                    THEN <<[name |-> <<"origin", "/">> \o TargetBranch, commit |-> 4]>>
                    ELSE <<>>)]>>

Repo(heads, remotes, ancestor, related, merges, mention_newer, mention_self) ==
    [heads |-> heads, remotes |-> remotes, commits |-> Tips,
     ancestor |-> ancestor, related |-> related, merges |-> merges,
     mention_newer |-> mention_newer, mention_self |-> mention_self]

MsgKinds == {"branch", "request", "body", "piped", "other"}
RunLengths == {1, LogLimit - 1, LogLimit + MaxOver}
Runs == [kind : MsgKinds, has_tip : BOOLEAN, n : RunLengths]
Histories == UNION {[1..k -> Runs] : k \in 0..MaxLog}

\* Every way the two names resolve, with every answer of merge-base.
ReposByRefs ==
    {Repo(Heads(sl, tl), Remotes(sr, tr), a, a \/ r, <<>>, 0, FALSE) :
        sl \in BOOLEAN, sr \in BOOLEAN, tl \in BOOLEAN, tr \in BOOLEAN,
        a \in BOOLEAN, r \in BOOLEAN}

\* A merged source under every merge history of the target.
ReposByHistory ==
    {Repo(Heads(TRUE, TRUE), Remotes(TRUE, TRUE), TRUE, TRUE, h, 0, FALSE) :
        h \in Histories}

\* A merged source under every answer of the search for its short hash.
ReposByMention ==
    {Repo(Heads(sl, TRUE), Remotes(TRUE, TRUE), TRUE, TRUE, h, n, own) :
        sl \in BOOLEAN,
        h \in {hh \in Histories : Len(hh) <= 1},
        n \in {0, 1, DirectLimit},
        own \in BOOLEAN}

InitMerge ==
    /\ git \in ReposByRefs \cup ReposByHistory \cup ReposByMention
    /\ merge_info = <<>>
    /\ IdleExtract
    /\ IdleBranches
    /\ IdleSort
    /\ IdleConfig
    /\ IdleConnect

CheckMergeInfo ==
    /\ merge_info = <<>>
    /\ merge_info' = <<check_merge_info(git, SourceBranch, TargetBranch)>>
    /\ UNCHANGED <<git, varsExtract, varsBranches, varsSort, varsConfig, varsConnect>>

NextMerge == CheckMergeInfo

SpecMerge == InitMerge /\ [][NextMerge]_vars

---------------------------------------------------------------------------
(* Claims about check_merge_info *)

\* the tip a branch name stands for: the local head, else the tracking ref
\* of the first remote that has one; 0 when the name does not resolve
TipOf(g, branch_name) ==
    LET local == {i \in 1..Len(g.heads) : g.heads[i].name = branch_name}
        tracking ==
            {<<k, i>> \in (1..Len(g.remotes)) \X (1..3) :
                /\ i <= Len(g.remotes[k].refs)
                /\ g.remotes[k].refs[i].name
                       = g.remotes[k].name \o <<"/">> \o branch_name}
    IN  IF local # {} THEN g.heads[CHOOSE i \in local : TRUE].commit
        ELSE IF tracking # {}
             THEN LET t == CHOOSE t \in tracking : TRUE
                  IN  g.remotes[t[1]].refs[t[2]].commit
             ELSE 0

BothResolve == TipOf(git, SourceBranch) # 0 /\ TipOf(git, TargetBranch) # 0

Checked == merge_info # <<>>

IsNotMergedResult(r) ==
    /\ r.is_merged = FALSE
    /\ r.merge_date = None
    /\ r.merge_commit = None
    /\ r.merge_author = Absent
    /\ r.mr_id = Absent
    /\ r.commit_hash = Absent

\* C1: when both refs resolve and the source tip is not an ancestor of the
\* target tip, check_merge_info returns is_merged false, merge_date and
\* merge_commit None and no merge_author, mr_id or commit_hash; it returns the
\* same when a ref does not resolve and when merge-base fails.
C1_NotMerged ==
    Checked =>
        /\ (BothResolve /\ ~git.ancestor) => IsNotMergedResult(merge_info[1])
        /\ ~BothResolve => IsNotMergedResult(merge_info[1])
        /\ (BothResolve /\ ~git.related) => IsNotMergedResult(merge_info[1])

\* Both refs resolve, the tips share the fork point and the branch is not merged.
C1_Witness ==
    /\ Checked
    /\ BothResolve
    /\ git.related
    /\ ~git.ancestor
    /\ merge_info[1].is_merged = FALSE

\* the position of the first commit of a sequence that contains the tip,
\* 0 when there is none
FirstWithTip(commits) ==
    LET hits == {i \in 1..Len(commits) : commits[i].has_tip}
    IN  IF hits = {} THEN 0 ELSE CHOOSE i \in hits : \A j \in hits : i <= j

\* an author name up to its first "|"
UpToBar(an) ==
    LET bars == {i \in 1..Len(an) : an[i] = "|"}
    IN  IF bars = {} THEN an
        ELSE SubSeq(an, 1, (CHOOSE i \in bars : \A j \in bars : i <= j) - 1)

CarriesCommit(r, c, author) ==
    /\ r.is_merged = TRUE
    /\ r.commit_hash = Short(HexSha(c.commit))
    /\ r.merge_date = format_date(c.ct)
    /\ r.merge_author = author

NoCandidatePasses(g) ==
    LET named == SelectSeq(TargetMerges(g), LAMBDA c : Grep(c, SourceBranch))
        window == SubSeq(named, 1, Min(LogLimit, Len(named)))
    IN  \A i \in 1..Len(window) : ~window[i].has_tip

\* the search for the short hash lists the source commit itself
DirectMatch(g) == g.mention_self /\ g.mention_newer < DirectLimit

\* C3: when both refs resolve and the source tip is an ancestor of or equal
\* to the target tip the result is merged; when moreover no candidate passes
\* the ancestor verification and the short-hash search lists no commit with
\* the source tip's full hash, the result carries the source tip's own date,
\* author and first ShortLen hex characters, the display of that short hash
\* with the direct-merge marker, and no mr_id.
C3_AncestorIsMerged ==
    (Checked /\ BothResolve /\ git.ancestor) =>
        LET r == merge_info[1]
            tip == TipOf(git, SourceBranch)
            short == SubSeq(HexSha(tip), 1, ShortLen)
        IN  /\ r.is_merged = TRUE
            /\ (NoCandidatePasses(git) /\ ~DirectMatch(git)) =>
                   /\ r.merge_date = format_date(git.commits[tip].committed_date)
                   /\ r.merge_author = git.commits[tip].author
                   /\ r.commit_hash = short
                   /\ r.merge_commit = short \o <<" ", "(direct merge)">>
                   /\ r.mr_id = None

\* The tip's own message names its short hash, but DirectLimit newer commits
\* name it too: the fallback reports the tip of the tracking ref.
C3_Witness ==
    /\ Checked
    /\ git.ancestor
    /\ git.heads = Heads(FALSE, TRUE)
    /\ git.mention_self /\ git.mention_newer = DirectLimit
    /\ Len(git.merges) = 1 /\ git.merges[1].kind = "branch"
    /\ ~git.merges[1].has_tip
    /\ merge_info[1].merge_commit = Short(HexSha(2)) \o <<" ", "(direct merge)">>

\* the merge commits of the target whose short hash the result carries
Selected ==
    {k \in 1..Len(TargetMerges(git)) :
        Short(HexSha(TargetMerges(git)[k].commit)) = merge_info[1].commit_hash}

\* the result is one of the two fallbacks
IsFallback(r) ==
    \E n \in 1..Len(r.merge_commit) :
        SubSeq(r.merge_commit, n, Len(r.merge_commit))
            \in {<<"(direct commit)">>, <<"(direct merge)">>}

\* C17: a result of check_merge_info carries an mr_id only as the extraction
\* from the subject of the merge commit it selected; the not-merged result has
\* none, the two fallback results have None, and no other field of the log
\* record (hash, timestamp, author name) reaches the extraction, also when the
\* author name or the subject holds the separator.
C17_IdFromSubject ==
    Checked =>
        /\ merge_info[1].is_merged = FALSE => merge_info[1].mr_id = Absent
        /\ (merge_info[1].is_merged /\ IsFallback(merge_info[1])) =>
               merge_info[1].mr_id = None
        /\ (merge_info[1].is_merged /\ ~IsFallback(merge_info[1])) =>
               \E k \in Selected :
                   merge_info[1].mr_id
                       = _extract_merge_request_id(TargetMerges(git)[k].subject)

---------------------------------------------------------------------------
(* get_all_branches, src/app.py 381-435 *)

\* s.replace(old, new): every occurrence, left to right
RECURSIVE Replace(_, _, _)
Replace(s, old, new) ==
    IF s = <<>> THEN <<>>
    ELSE IF MatchAt(s, 1, old)
         THEN new \o Replace(SubSeq(s, Len(old) + 1, Len(s)), old, new)
         ELSE <<Head(s)>> \o Replace(Tail(s), old, new)

IsSpace(a) == a \in {" ", "\n"}

\* s.strip()
RECURSIVE strip(_)
strip(s) ==
    IF s = <<>> THEN s
    ELSE IF IsSpace(Head(s)) THEN strip(Tail(s))
    ELSE IF IsSpace(s[Len(s)]) THEN strip(SubSeq(s, 1, Len(s) - 1))
    ELSE s

\* s.split('\n')[0]
FirstLine(s) == SplitMax(s, "\n", 1)[1]

\* 391-400, 411-420: the entry of a ref, read from its tip commit
BranchEntry(g, name, type, c) ==
    [name |-> name,
     type |-> type,
     last_commit |-> Short(HexSha(c)),
     last_commit_date |-> format_date(g.commits[c].committed_date),
     last_commit_timestamp |-> g.commits[c].committed_date,
     author_name |-> g.commits[c].author,
     author_email |-> g.commits[c].email,
     commit_message |-> FirstLine(strip(g.commits[c].message))]

\* 389-400
LocalEntries(g) ==
    [i \in 1..Len(g.heads) |->
        BranchEntry(g, g.heads[i].name, <<"local">>, g.heads[i].commit)]

\* No entry counts as a local one: a slip the claims must notice.
has_local_never(bs, branch_name) == FALSE

\* 408: any(b['name'] == branch_name and b['type'] == 'local' for b in branches)
has_local(bs, branch_name) ==
    \E i \in 1..Len(bs) : bs[i].name = branch_name /\ bs[i].type = <<"local">>

\* 403-422: the list after the refs of the remotes from the k-th on, each
\* from its i-th ref on, have been visited
RECURSIVE RemoteEntries(_, _, _, _)
RemoteEntries(g, k, i, bs) ==
    IF k > Len(g.remotes) THEN bs
    ELSE IF i > Len(g.remotes[k].refs) THEN RemoteEntries(g, k + 1, 1, bs)
    ELSE LET remote == g.remotes[k]
             ref == remote.refs[i]
             branch_name == Replace(ref.name, remote.name \o <<"/">>, <<>>)
         IN  IF /\ ref.name # remote.name \o <<"/", "HEAD">>
                /\ ~has_local(bs, branch_name)
             THEN RemoteEntries(g, k, i + 1,
                      Append(bs, BranchEntry(g, branch_name,
                                     <<"remote", " ", "(">> \o remote.name \o <<")">>,
                                     ref.commit)))
             ELSE RemoteEntries(g, k, i + 1, bs)

\* tuple comparison: a < b, for tuples of numbers of one length
RECURSIVE KeyLess(_, _)
KeyLess(a, b) ==
    IF a = <<>> THEN FALSE
    ELSE IF Head(a) # Head(b) THEN Head(a) < Head(b)
    ELSE KeyLess(Tail(a), Tail(b))

\* The order of an ascending stable sort: a slip the claims must notice.
RECURSIVE sort_order_ascending(_)
sort_order_ascending(keys) ==
    IF keys = <<>> THEN <<>>
    ELSE LET n == Len(keys)
             rest == sort_order_ascending(SubSeq(keys, 1, n - 1))
             pos == Cardinality({j \in 1..(n - 1) : ~KeyLess(keys[n], keys[rest[j]])})
         IN  SubSeq(rest, 1, pos) \o <<n>> \o SubSeq(rest, pos + 1, n - 1)

\* list.sort(key=..., reverse=True): the positions of the items in sorted
\* order; the sort is stable, items of equal key keep their order
RECURSIVE sort_order(_)
sort_order(keys) ==
    IF keys = <<>> THEN <<>>
    ELSE LET n == Len(keys)
             rest == sort_order(SubSeq(keys, 1, n - 1))
             pos == Cardinality({j \in 1..(n - 1) : ~KeyLess(keys[rest[j]], keys[n])})
         IN  SubSeq(rest, 1, pos) \o <<n>> \o SubSeq(rest, pos + 1, n - 1)

\* 428-430: branch['index'] = i; del branch['last_commit_timestamp']
Indexed(b, i) ==
    [name |-> b.name,
     type |-> b.type,
     last_commit |-> b.last_commit,
     last_commit_date |-> b.last_commit_date,
     author_name |-> b.author_name,
     author_email |-> b.author_email,
     commit_message |-> b.commit_message,
     index |-> i]

\* Reading the commit of a ref succeeds on an intact repository, so the
\* handlers of 421 and 432 are not entered.
get_all_branches(g) ==
    LET bs == RemoteEntries(g, 1, 1, LocalEntries(g))
        order == sort_order([i \in 1..Len(bs) |-> <<bs[i].last_commit_timestamp>>])
    IN  [i \in 1..Len(bs) |-> Indexed(bs[order[i]], i)]

\* the number of remotes
MaxRemotes == 2

\* the commits the refs may point at; commits 1 and 2 share their date
ListedCommits ==
    [c \in 1..3 |->
        [committed_date |-> 70 + ((c + 1) \div 2),
         author |-> IF c = 1 THEN <<"carol">> ELSE <<"dave">>,
         email |-> IF c = 1 THEN <<"carol", "@", "x">> ELSE <<"dave", "@", "x">>,
         message |-> IF c = 1 THEN <<"\n", "fix", " ", "a", "\n", "\n", "why", "\n">>
                     ELSE <<"add", " ", "b">>]]

BranchNames == <<<<"a">>, <<"b">>>>

\* which commit each listed name points at, 0 for no such ref
RefChoices == [1..Len(BranchNames) -> 0..3]

RECURSIVE RefsOf(_, _, _)
RefsOf(prefix, choice, i) ==
    IF i > Len(BranchNames) THEN <<>>
    ELSE (IF choice[i] = 0 THEN <<>>
          ELSE <<[name |-> prefix \o BranchNames[i], commit |-> choice[i]]>>)
         \o RefsOf(prefix, choice, i + 1)

RemoteName(k) == IF k = 1 THEN <<"origin">> ELSE <<"remote", str(k)>>

\* remote k with its HEAD and the chosen tracking refs
RemoteOf(k, choice) ==
    [name |-> RemoteName(k),
     refs |-> <<[name |-> RemoteName(k) \o <<"/", "HEAD">>, commit |-> 3]>>
              \o RefsOf(RemoteName(k) \o <<"/">>, choice, 1)]

\* the repository with the local branches h and n remotes tracking r
ListedRepo(h, n, r) ==
    [heads |-> RefsOf(<<>>, h, 1),
     remotes |-> [k \in 1..n |-> RemoteOf(k, r[k])],
     commits |-> ListedCommits,
     ancestor |-> FALSE, related |-> FALSE, merges |-> <<>>,
     mention_newer |-> 0, mention_self |-> FALSE]

InitBranches ==
    /\ \E n \in 0..MaxRemotes :
           \E h \in RefChoices, r \in [1..n -> RefChoices] :
               git = ListedRepo(h, n, r)
    /\ merge_info = <<>>
    /\ branches = <<>>
    /\ IdleExtract
    /\ IdleSort
    /\ IdleConfig
    /\ IdleConnect

GetAllBranches ==
    /\ branches = <<>>
    /\ branches' = <<get_all_branches(git)>>
    /\ UNCHANGED <<varsMerge, varsExtract, varsSort, varsConfig, varsConnect>>

NextBranches == GetAllBranches

SpecBranches == InitBranches /\ [][NextBranches]_vars

---------------------------------------------------------------------------
(* Claims about get_all_branches *)

Listed == branches # <<>>

\* the names of the local branches
LocalNames(g) == {g.heads[i].name : i \in 1..Len(g.heads)}

\* the tracking refs, other than each remote's HEAD, as <<remote, ref>> positions
TrackingRefs(g) ==
    {kr \in (1..Len(g.remotes)) \X (1..(Len(BranchNames) + 1)) :
        /\ kr[2] <= Len(g.remotes[kr[1]].refs)
        /\ g.remotes[kr[1]].refs[kr[2]].name
               # g.remotes[kr[1]].name \o <<"/", "HEAD">>}

\* the branch name of a tracking ref: the text after "<remote>/"
BareName(g, kr) ==
    SubSeq(g.remotes[kr[1]].refs[kr[2]].name,
           Len(g.remotes[kr[1]].name) + 2,
           Len(g.remotes[kr[1]].refs[kr[2]].name))

TipDate(b) == git.commits[CommitOf(b.last_commit)].committed_date

---------------------------------------------------------------------------
(* The sort of the report, src/app.py 509-522 *)

\* datetime.min
datetime_min == 0

\* datetime.strptime(s, '%Y-%m-%d %H:%M:%S'): the value of a text that
\* format_date can have written; any other text raises ValueError
strptime(s) ==
    IF /\ Len(s) = 3
       /\ s[2] = ":"
       /\ \E n \in 0..MaxInt : IntText[n] = s[1]
       /\ \E n \in 0..59 : IntText[n] = s[3]
    THEN [ok |-> TRUE, val |-> 60 * int(s[1]) + int(s[3])]
    ELSE [ok |-> FALSE, val |-> datetime_min]

\* The date is not looked at: a slip the claims must notice.
sort_key_flag_only(result) ==
    IF result.is_merged /\ result.merge_date # None
    THEN <<1, datetime_min>>
    ELSE <<0, datetime_min>>

\* 510-518; None and the empty text are falsy
sort_key(result) ==
    IF result.is_merged /\ result.merge_date # None /\ result.merge_date # <<>>
    THEN LET parsed == strptime(result.merge_date)
         IN  IF parsed.ok THEN <<1, parsed.val>> ELSE <<1, datetime_min>>
    ELSE <<0, datetime_min>>

\* 520: results.sort(key=sort_key, reverse=True)
sorted_results(rs) ==
    LET order == sort_order([i \in 1..Len(rs) |-> sort_key(rs[i])])
    IN  [i \in 1..Len(rs) |-> rs[order[i]]]

\* the number of rows of a report
MaxRows == 4

\* 481-494: the row of a branch whose check returned info
ResultRow(branch_name, info) ==
    [branch_name |-> branch_name,
     is_merged |-> info.is_merged,
     merge_date |-> info.merge_date,
     merge_commit |-> info.merge_commit,
     merge_author |-> IF info.merge_author = Absent THEN <<"unknown">>
                      ELSE info.merge_author,
     mr_id |-> IF info.mr_id = Absent THEN None ELSE info.mr_id,
     commit_hash |-> IF info.commit_hash = Absent THEN None ELSE info.commit_hash,
     error |-> Absent]

\* 496-504: the row of a branch whose check raised
ErrorRow(branch_name) ==
    [branch_name |-> branch_name,
     is_merged |-> FALSE,
     merge_date |-> None,
     merge_commit |-> None,
     merge_author |-> Absent,
     mr_id |-> Absent,
     commit_hash |-> Absent,
     error |-> <<"error">>]

\* The merge dates a row can show: three that format_date writes for
\* different instants, the latest with the text that sorts first as a
\* string, and one that strptime rejects (strftime writes a year before 1000
\* with fewer than the four digits the format asks for).
MergeDates ==
    {format_date(59), format_date(130), format_date(600), <<"983", "-", "01">>}

\* what the check of one branch can come to
Outcomes ==
    {[kind |-> "error", info |-> not_merged_info]}
        \cup {[kind |-> "row", info |-> not_merged_info]}
        \cup {[kind |-> "row",
               info |-> [is_merged |-> TRUE, merge_date |-> d,
                         merge_commit |-> <<"c">>, merge_author |-> <<"dave">>,
                         mr_id |-> None, commit_hash |-> <<"c">>]] :
                  d \in MergeDates}

\* the rows of n branches, one for each branch name, in the order produced
RowsOf(outcomes) ==
    [i \in 1..Len(outcomes) |->
        IF outcomes[i].kind = "error"
        THEN ErrorRow(<<"b", str(i)>>)
        ELSE ResultRow(<<"b", str(i)>>, outcomes[i].info)]

InitSort ==
    /\ results \in UNION {{RowsOf(o) : o \in [1..n -> Outcomes]} : n \in 0..MaxRows}
    /\ report = <<>>
    /\ query = <<>>
    /\ IdleExtract
    /\ IdleMerge
    /\ IdleBranches
    /\ IdleConfig
    /\ IdleConnect

SortResults ==
    /\ report = <<>>
    /\ report' = <<sorted_results(results)>>
    /\ UNCHANGED <<results, query, varsExtract, varsMerge, varsBranches, varsConfig,
                   varsConnect>>

NextSort == SortResults

SpecSort == InitSort /\ [][NextSort]_vars

---------------------------------------------------------------------------
(* Claims about the order of the report *)

Sorted == report # <<>>

\* a date text of the form minutes ":" seconds, and the instant it names
IsDateText(d) ==
    /\ Len(d) = 3
    /\ d[2] = ":"
    /\ \E m \in 0..MaxInt : ToString(m) = d[1]
    /\ \E x \in 0..59 : ToString(x) = d[3]

Instant(d) ==
    60 * (CHOOSE m \in 0..MaxInt : ToString(m) = d[1])
        + (CHOOSE x \in 0..59 : ToString(x) = d[3])

MergedParsable(r) == r.is_merged /\ r.merge_date # None /\ IsDateText(r.merge_date)
MergedUnparsable(r) == r.is_merged /\ r.merge_date # None /\ ~IsDateText(r.merge_date)
NotMergedRow(r) == ~r.is_merged

\* where a row of the report was in the order of production
Produced(r) == CHOOSE i \in 1..Len(results) : results[i] = r

\* C7: in the returned list every merged row with a parsable date precedes
\* every not-merged row, error rows included; of two merged rows the one with
\* the later date comes first; a merged row with an unparsable date comes
\* after every merged row with a parsable date and before every not-merged
\* row; and not-merged rows keep the order in which they were produced.
C7_ReportOrder ==
    Sorted =>
        LET rs == report[1]
        IN  /\ Len(rs) = Len(results)
            /\ {rs[i] : i \in 1..Len(rs)} = {results[i] : i \in 1..Len(results)}
            /\ \A i, j \in 1..Len(rs) :
                   /\ (MergedParsable(rs[i]) /\ NotMergedRow(rs[j])) => i < j
                   /\ (/\ MergedParsable(rs[i]) /\ MergedParsable(rs[j])
                       /\ Instant(rs[i].merge_date) > Instant(rs[j].merge_date))
                          => i < j
                   /\ (MergedParsable(rs[i]) /\ MergedUnparsable(rs[j])) => i < j
                   /\ (MergedUnparsable(rs[i]) /\ NotMergedRow(rs[j])) => i < j
                   /\ (/\ NotMergedRow(rs[i]) /\ NotMergedRow(rs[j])
                       /\ Produced(rs[i]) < Produced(rs[j]))
                          => i < j

\* Produced: a merged row with an unparsable date, an error row, a merged row
\* and a merged row of a later date.  Returned: the later, the earlier, the
\* unparsable, the error row.
C7_Witness ==
    /\ Sorted
    /\ Len(results) = 4
    /\ MergedUnparsable(results[1])
    /\ results[2].error # Absent
    /\ results[3].merge_date = format_date(130)
    /\ results[4].merge_date = format_date(600)
    /\ report[1] = <<results[4], results[3], results[1], results[2]>>

---------------------------------------------------------------------------
(* check_branch_merge_status, src/app.py 437-522 *)

\* 455-460: names and the branch names of the refs of the remotes from the
\* k-th on, each from its i-th ref on
RECURSIVE all_branches(_, _, _, _)
all_branches(g, k, i, names) ==
    IF k > Len(g.remotes) THEN names
    ELSE IF i > Len(g.remotes[k].refs) THEN all_branches(g, k + 1, 1, names)
    ELSE IF g.remotes[k].refs[i].name # g.remotes[k].name \o <<"/", "HEAD">>
    THEN all_branches(g, k, i + 1,
             Append(names, Replace(g.remotes[k].refs[i].name,
                                   g.remotes[k].name \o <<"/">>, <<>>)))
    ELSE all_branches(g, k, i + 1, names)

\* 448-460: all_branches
branch_names(g) ==
    all_branches(g, 1, 1, [i \in 1..Len(g.heads) |-> g.heads[i].name])

\* 463: [k.strip() for k in keyword.split(',') if k.strip()]
keywords_of(keyword) ==
    SelectSeq([i \in 1..Len(SplitMax(keyword, ",", Len(keyword))) |->
                  strip(SplitMax(keyword, ",", Len(keyword))[i])],
              LAMBDA k : k # <<>>)

\* 467-471: the names, in the order the set yields them, that hold a keyword
keyword_branches(order, keywords) ==
    SelectSeq(order, LAMBDA branch :
                  \E i \in 1..Len(keywords) : Contains(branch, keywords[i]))

\* the orders in which set(all_branches) may yield its elements
Orders(names) ==
    {o \in [1..Cardinality({names[i] : i \in 1..Len(names)})
               -> {names[i] : i \in 1..Len(names)}] :
        \A i, j \in DOMAIN o : o[i] = o[j] => i = j}

\* 473-494: the rows in the order produced; check_merge_info and
\* get_branch_author_info return a value for every name
rows_of(g, candidates, target_branch) ==
    [i \in 1..Len(candidates) |->
        ResultRow(candidates[i], check_merge_info(g, candidates[i], target_branch))]

\* what the call produced and what it returned, for the order the set yields
check_branch_merge_status(g, opened, keyword, target_branch, order) ==
    IF ~opened THEN [results |-> <<>>, report |-> <<>>]
    ELSE CHOOSE r \in
             {[results |-> rows, report |-> sorted_results(rows)] :
                 rows \in {rows_of(g, keyword_branches(order, keywords_of(keyword)),
                                   target_branch)}} : TRUE

---------------------------------------------------------------------------
(* Reports: check_branch_merge_status on a repository whose remote is named
   o and whose branches are f, go/f and the target m *)

StatusBranches == <<<<"f">>, <<"g", "o", "/", "f">>, <<"m">>>>

\* the refs prefix + name of the chosen branches, the i-th at commit tips[i]
StatusRefs(prefix, chosen, tips) ==
    SelectSeq([i \in 1..Len(StatusBranches) |->
                  [name |-> prefix \o StatusBranches[i],
                   commit |-> IF i \in chosen THEN tips[i] ELSE 0]],
              LAMBDA ref : ref.commit # 0)

StatusRepos ==
    {Repo(StatusRefs(<<>>, h, <<1, 2, 3>>),
          <<[name |-> <<"o">>,
             refs |-> <<[name |-> <<"o", "/", "HEAD">>, commit |-> 4]>>
                      \o StatusRefs(<<"o", "/">>, r, <<2, 1, 4>>)]>>,
          a, TRUE, <<>>, 0, FALSE) :
        h \in SUBSET (1..Len(StatusBranches)),
        r \in SUBSET (1..Len(StatusBranches)),
        a \in BOOLEAN}

Keywords ==
    {<<"f">>, <<"g">>, <<"F">>, <<",">>, <<"g", "f">>,
     <<" ", "f", " ", ",", ",">>, <<"m", ",", "g", "o">>}

InitStatus ==
    /\ git \in StatusRepos
    /\ merge_info = <<>>
    /\ results = <<>>
    /\ report = <<>>
    /\ query = <<>>
    /\ IdleExtract
    /\ IdleBranches
    /\ IdleConfig
    /\ IdleConnect

CheckBranchMergeStatus ==
    /\ query = <<>>
    /\ \E keyword \in Keywords, opened \in BOOLEAN :
           \E order \in Orders(branch_names(git)) :
               \E r \in {check_branch_merge_status(git, opened, keyword,
                                                   StatusBranches[3], order)} :
                   /\ query' = <<[keyword |-> keyword,
                                  target_branch |-> StatusBranches[3],
                                  opened |-> opened]>>
                   /\ results' = r.results
                   /\ report' = <<r.report>>
    /\ UNCHANGED <<varsMerge, varsExtract, varsBranches, varsConfig, varsConnect>>

NextStatus == CheckBranchMergeStatus

SpecStatus == InitStatus /\ [][NextStatus]_vars

---------------------------------------------------------------------------
(* Claims about the rows of a report *)

\* the names of the branches of the repository: the local ones, and for every
\* ref of a remote other than its HEAD the text after the remote's name
BranchNamesOf(g) ==
    {g.heads[i].name : i \in 1..Len(g.heads)}
      \cup UNION {{SubSeq(g.remotes[k].refs[i].name, Len(g.remotes[k].name) + 2,
                          Len(g.remotes[k].refs[i].name)) :
                      i \in {j \in 1..Len(g.remotes[k].refs) :
                                g.remotes[k].refs[j].name
                                    # g.remotes[k].name \o <<"/", "HEAD">>}} :
                  k \in 1..Len(g.remotes)}

\* the trimmed, non-empty pieces of a comma-separated keyword string
Pieces(keyword) ==
    {strip(SplitMax(keyword, ",", Len(keyword))[i]) :
        i \in 1..Len(SplitMax(keyword, ",", Len(keyword)))} \ {<<>>}

\* the branch names that hold one of the keywords
Candidates(g, keyword) ==
    {n \in BranchNamesOf(g) : \E kw \in Pieces(keyword) : Contains(n, kw)}

\* a report was asked of an open repository
Reported == query # <<>> /\ query[1].opened

\* The statement of C15: the report has exactly one row for every candidate
\* and no other row.
C15_RowPerCandidate ==
    Reported =>
        /\ Len(report[1]) = Cardinality(Candidates(git, query[1].keyword))
        /\ {report[1][i].branch_name : i \in 1..Len(report[1])}
               = Candidates(git, query[1].keyword)

\* absent from the row, or null
Null(v) == v = None \/ v = Absent

\* The statement of C18: a row that is not merged holds no merge date, merge
\* commit, merge author, change-request id or commit hash, and a merged row
\* holds a merge date, a merge commit and a commit hash.
C18_UnmergedRowsBlank ==
    Reported =>
        \A i \in 1..Len(report[1]) :
            /\ ~report[1][i].is_merged =>
                   /\ Null(report[1][i].merge_date)
                   /\ Null(report[1][i].merge_commit)
                   /\ Null(report[1][i].merge_author)
                   /\ Null(report[1][i].mr_id)
                   /\ Null(report[1][i].commit_hash)
            /\ report[1][i].is_merged =>
                   /\ ~Null(report[1][i].merge_date)
                   /\ ~Null(report[1][i].merge_commit)
                   /\ ~Null(report[1][i].commit_hash)

---------------------------------------------------------------------------
(* JSON values and the configuration file, src/app.py 127-240               *)
(*                                                                         *)
(* A JSON value is a string, a list or a dict; a dict keeps its members in *)
(* insertion order, as Python's does.  The file holds the text json.dump   *)
(* wrote, or whatever text was put there.                                  *)
(***************************************************************************)

JStr(s) == [t |-> "str", s |-> s]
JList(items) == [t |-> "list", items |-> items]
JDict(items) == [t |-> "dict", items |-> items]

\* the position of a key among the members of a dict, 0 when absent
KeyPos(members, key) ==
    LET hits == {i \in 1..Len(members) : members[i].k = key}
    IN  IF hits = {} THEN 0 ELSE CHOOSE i \in hits : TRUE

\* d[key] = v on the members of a dict
dict_set(members, key, v) ==
    IF KeyPos(members, key) = 0 THEN Append(members, [k |-> key, v |-> v])
    ELSE [members EXCEPT ![KeyPos(members, key)] = [k |-> key, v |-> v]]

\* d.get(key, default)
dict_get(d, key, default) ==
    IF KeyPos(d.items, key) = 0 THEN default
    ELSE d.items[KeyPos(d.items, key)].v

\* Nothing is escaped: a slip the claims must notice.
escape_nothing(s) == s

\* the characters json escapes inside a string
RECURSIVE escape(_)
escape(s) ==
    IF s = <<>> THEN <<>>
    ELSE (IF Head(s) \in {"\"", "\\"} THEN <<"\\", Head(s)>> ELSE <<Head(s)>>)
         \o escape(Tail(s))

dump_str(s) == <<"\"">> \o escape(s) \o <<"\"">>

\* the line break and the indentation of nesting depth d
NewLine(d) == <<"\n">> \o [i \in 1..d |-> "    "]

\* json.dump(v, f, ensure_ascii=False, indent=4): the text written
RECURSIVE dumps(_, _)
RECURSIVE dump_items(_, _, _)
RECURSIVE dump_members(_, _, _)
dumps(v, d) ==
    CASE v.t = "str" -> dump_str(v.s)
      [] v.t = "list" ->
           IF v.items = <<>> THEN <<"[", "]">>
           ELSE <<"[">> \o dump_items(v.items, 1, d + 1) \o NewLine(d) \o <<"]">>
      [] OTHER ->
           IF v.items = <<>> THEN <<"{", "}">>
           ELSE <<"{">> \o dump_members(v.items, 1, d + 1) \o NewLine(d) \o <<"}">>

dump_items(items, i, d) ==
    IF i > Len(items) THEN <<>>
    ELSE NewLine(d) \o dumps(items[i], d)
             \o (IF i < Len(items) THEN <<",">> ELSE <<>>)
             \o dump_items(items, i + 1, d)

dump_members(members, i, d) ==
    IF i > Len(members) THEN <<>>
    ELSE NewLine(d) \o dump_str(members[i].k) \o <<":", " ">>
             \o dumps(members[i].v, d)
             \o (IF i < Len(members) THEN <<",">> ELSE <<>>)
             \o dump_members(members, i + 1, d)

\* what a failed parse returns
ParseError == [ok |-> FALSE, val |-> JStr(<<>>), next |-> 0]

IsWhitespace(a) == a \in {" ", "\n", "    "}

\* the first position from pos on that holds no whitespace
RECURSIVE skip_ws(_, _)
skip_ws(text, pos) ==
    IF pos >= 1 /\ pos <= Len(text) /\ IsWhitespace(text[pos])
    THEN skip_ws(text, pos + 1)
    ELSE pos

\* the characters of a string up to its closing quote, escapes undone
RECURSIVE parse_chars(_, _, _)
parse_chars(text, pos, acc) ==
    IF pos > Len(text) THEN ParseError
    ELSE IF text[pos] = "\"" THEN [ok |-> TRUE, val |-> JStr(acc), next |-> pos + 1]
    ELSE IF text[pos] = "\\"
         THEN IF pos + 1 > Len(text) THEN ParseError
              ELSE parse_chars(text, pos + 2, Append(acc, text[pos + 1]))
    ELSE parse_chars(text, pos + 1, Append(acc, text[pos]))

\* json.load.  Where a parsed value is used more than once it is bound
\* through a singleton set, so that the text is parsed once.
RECURSIVE parse_value(_, _)
RECURSIVE parse_elements(_, _, _)
RECURSIVE parse_members(_, _, _)

\* the value that starts at p, which holds no whitespace
value_at(text, p) ==
    LET q == skip_ws(text, p + 1)
    IN  IF p > Len(text) THEN ParseError
        ELSE IF text[p] = "\"" THEN parse_chars(text, p + 1, <<>>)
        ELSE IF text[p] = "["
             THEN IF q <= Len(text) /\ text[q] = "]"
                  THEN [ok |-> TRUE, val |-> JList(<<>>), next |-> q + 1]
                  ELSE parse_elements(text, p + 1, <<>>)
        ELSE IF text[p] = "{"
             THEN IF q <= Len(text) /\ text[q] = "}"
                  THEN [ok |-> TRUE, val |-> JDict(<<>>), next |-> q + 1]
                  ELSE parse_members(text, p + 1, <<>>)
        ELSE ParseError

\* the value that starts at pos
parse_value(text, pos) ==
    CHOOSE r \in {value_at(text, p) : p \in {skip_ws(text, pos)}} : TRUE

\* the list whose elements are items, the last of them the parsed v
elements_after(text, v, items) ==
    LET p == skip_ws(text, v.next)
    IN  IF ~v.ok \/ p > Len(text) THEN ParseError
        ELSE IF text[p] = "," THEN parse_elements(text, p + 1, items)
        ELSE IF text[p] = "]"
             THEN [ok |-> TRUE, val |-> JList(items), next |-> p + 1]
        ELSE ParseError

\* the elements of a list from pos on, after the elements acc
parse_elements(text, pos, acc) ==
    CHOOSE r \in {elements_after(text, v, Append(acc, v.val)) :
                     v \in {parse_value(text, pos)}} : TRUE

\* the key of a member at kp and the colon after it
key_at(text, kp) ==
    IF kp <= Len(text) /\ text[kp] = "\""
    THEN CHOOSE r \in
             {IF key.ok /\ skip_ws(text, key.next) <= Len(text)
                        /\ text[skip_ws(text, key.next)] = ":"
              THEN [ok |-> TRUE, val |-> key.val, next |-> skip_ws(text, key.next) + 1]
              ELSE ParseError :
                  key \in {parse_chars(text, kp + 1, <<>>)}} : TRUE
    ELSE ParseError

\* the dict whose members are members, the last of them parsed as v
members_after(text, v, members) ==
    LET p == skip_ws(text, v.next)
    IN  IF p > Len(text) THEN ParseError
        ELSE IF text[p] = "," THEN parse_members(text, p + 1, members)
        ELSE IF text[p] = "}"
             THEN [ok |-> TRUE, val |-> JDict(members), next |-> p + 1]
        ELSE ParseError

\* the member whose key was parsed as key; a key that comes again replaces
\* the value
member_at(text, key, acc) ==
    IF ~key.ok THEN ParseError
    ELSE CHOOSE r \in
             {IF ~v.ok THEN ParseError
              ELSE CHOOSE m \in {members_after(text, v, members) :
                                    members \in {dict_set(acc, key.val.s, v.val)}} : TRUE :
                  v \in {parse_value(text, key.next)}} : TRUE

\* the members of a dict from pos on, after the members acc
parse_members(text, pos, acc) ==
    CHOOSE r \in {member_at(text, key, acc) :
                     key \in {key_at(text, skip_ws(text, pos))}} : TRUE

\* json.load(f): the whole text is one value
loads(text) ==
    CHOOSE r \in {IF v.ok /\ skip_ws(text, v.next) > Len(text) THEN v ELSE ParseError :
                     v \in {parse_value(text, 1)}} : TRUE

Repository(name, url, type, platform) ==
    JDict(<<[k |-> <<"name">>, v |-> JStr(name)],
            [k |-> <<"url">>, v |-> JStr(url)],
            [k |-> <<"type">>, v |-> JStr(type)],
            [k |-> <<"platform">>, v |-> JStr(platform)]>>)

Platform(name, host, merge_request_path, commit_path) ==
    JDict(<<[k |-> <<"name">>, v |-> JStr(name)],
            [k |-> <<"base_url">>, v |-> JStr(<<"https://">> \o host)],
            [k |-> <<"merge_request_path">>, v |-> JStr(merge_request_path)],
            [k |-> <<"commit_path">>, v |-> JStr(commit_path)],
            [k |-> <<"ssh_prefix">>, v |-> JStr(<<"git@">> \o host \o <<":">>)],
            [k |-> <<"https_prefix">>, v |-> JStr(<<"https://">> \o host \o <<"/">>)]>>)

CodeupUrl(project) ==
    <<"git@", "codeup.aliyun.com", ":", "5f9a23913a5188f27f3f344b", "/", "web", "/",
      project, ".git">>

Config(repositories, platforms) ==
    JDict(<<[k |-> <<"repositories">>, v |-> JList(repositories)],
            [k |-> <<"platforms">>, v |-> JDict(platforms)]>>)

default_platforms ==
    <<[k |-> <<"codeup.aliyun.com">>,
       v |-> Platform(<<"Aliyun CodeUp">>, <<"codeup.aliyun.com">>,
                      <<"/", "change", "/">>, <<"/", "commit", "/">>)],
      [k |-> <<"aliyun">>,
       v |-> Platform(<<"Aliyun Code">>, <<"code.aliyun.com">>,
                      <<"/", "-", "/", "merge_requests", "/">>,
                      <<"/", "-", "/", "commit", "/">>)],
      [k |-> <<"gitlab">>,
       v |-> Platform(<<"GitLab">>, <<"gitlab.com">>,
                      <<"/", "-", "/", "merge_requests", "/">>,
                      <<"/", "-", "/", "commit", "/">>)],
      [k |-> <<"github">>,
       v |-> Platform(<<"GitHub">>, <<"github.com">>,
                      <<"/", "pull", "/">>, <<"/", "commit", "/">>)]>>

default_repositories ==
    <<Repository(<<"xlb_fss_web">>, CodeupUrl("xlb_fss_web"),
                 <<"ssh">>, <<"codeup.aliyun.com">>),
      Repository(<<"react-web">>, CodeupUrl("react_web"),
                 <<"ssh">>, <<"codeup.aliyun.com">>),
      Repository(<<"xlb_bms_web">>, CodeupUrl("xlb_bms_web"),
                 <<"ssh">>, <<"codeup.aliyun.com">>)>>

create_default_config == Config(default_repositories, default_platforms)

\* no file at the configuration path
NoFile == [exists |-> FALSE, text |-> <<>>]

File(text) == [exists |-> TRUE, text |-> text]

\* open(config_path, 'w') raises PermissionError where the path cannot be
\* written, and nothing is written then
save_config(config, file, can_write) ==
    IF can_write
    THEN CHOOSE r \in {[ok |-> TRUE, file |-> File(dumps(c, 0))] : c \in {config}} : TRUE
    ELSE [ok |-> FALSE, file |-> file]

\* 139-149: the configuration returned for what json.load made of the file
config_from(parsed, file, can_write) ==
    IF file.exists /\ parsed.ok THEN [config |-> parsed.val, file |-> file]
    ELSE [config |-> create_default_config,
          file |-> save_config(create_default_config, file, can_write).file]

\* the configuration returned and the file left behind
load_config(file, can_write) ==
    CHOOSE r \in {config_from(parsed, file, can_write) :
                     parsed \in {loads(file.text)}} : TRUE

---------------------------------------------------------------------------
(* The configuration routes, src/app.py 804-867 *)

\* Python's None as a JSON value
JNone == [t |-> "none"]

\* the position of the first repository with the name or the url, 0 for none
FirstClash(repositories, name, url) ==
    LET hits == {i \in 1..Len(repositories) :
                    \/ dict_get(repositories[i], <<"name">>, JNone) = JStr(name)
                    \/ dict_get(repositories[i], <<"url">>, JNone) = JStr(url)}
    IN  IF hits = {} THEN 0 ELSE CHOOSE i \in hits : \A j \in hits : i <= j

\* 841-845: the response to the outcome of save_config
saved_response(written, done, failed) ==
    IF written.ok
    THEN [success |-> TRUE, message |-> done, file |-> written.file]
    ELSE [success |-> FALSE, message |-> failed, file |-> written.file]

\* 822-845: the request is checked against the loaded configuration
add_to(loaded, name, url, data, can_write) ==
    LET config == loaded.config
        repositories == dict_get(config, <<"repositories">>, JList(<<>>)).items
        clash == FirstClash(repositories, name, url)
        new_repo == Repository(name, url, data.type, data.platform)
    IN  IF config.t # "dict"
        THEN [success |-> FALSE, message |-> <<"add failed: ">>, file |-> loaded.file]
        ELSE IF clash # 0
        THEN [success |-> FALSE,
              message |-> IF dict_get(repositories[clash], <<"name">>, JNone) = JStr(name)
                          THEN <<"repository name exists">>
                          ELSE <<"repository url exists">>,
              file |-> loaded.file]
        ELSE CHOOSE r \in
                 {saved_response(written, <<"repository added">>,
                                 <<"repository not added">>) :
                     written \in
                         {save_config(
                              JDict(dict_set(config.items, <<"repositories">>,
                                             JList(Append(repositories, new_repo)))),
                              loaded.file, can_write)}} : TRUE

\* POST /api/config/repository: the response and the file left behind
add_repository(data, file, can_write) ==
    IF strip(data.name) = <<>> \/ strip(data.url) = <<>>
    THEN [success |-> FALSE, message |-> <<"name and url must not be empty">>,
          file |-> file]
    ELSE CHOOSE r \in
             {add_to(loaded, strip(data.name), strip(data.url), data, can_write) :
                 loaded \in {load_config(file, can_write)}} : TRUE

\* repositories.pop(index)
pop(items, index) ==
    SubSeq(items, 1, index) \o SubSeq(items, index + 2, Len(items))

\* 854-865: the index is checked against the loaded configuration
delete_from(loaded, index, can_write) ==
    LET config == loaded.config
        repositories == dict_get(config, <<"repositories">>, JList(<<>>)).items
    IN  IF config.t # "dict"
        THEN [success |-> FALSE, message |-> <<"delete failed: ">>, file |-> loaded.file]
        ELSE IF index < 0 \/ index >= Len(repositories)
        THEN [success |-> FALSE, message |-> <<"invalid index">>, file |-> loaded.file]
        ELSE CHOOSE r \in
                 {saved_response(written, <<"repository deleted">>,
                                 <<"repository not deleted">>) :
                     written \in
                         {save_config(
                              JDict(dict_set(config.items, <<"repositories">>,
                                             JList(pop(repositories, index)))),
                              loaded.file, can_write)}} : TRUE

\* DELETE /api/config/repository/<index>: the response and the file left behind
delete_repository(index, file, can_write) ==
    CHOOSE r \in {delete_from(loaded, index, can_write) :
                     loaded \in {load_config(file, can_write)}} : TRUE

\* the most repositories a configuration grows to
MaxRepos == 3

ApiUrl == <<"https://", "github.com", "/", "team", "/", "api", ".git">>

\* the bodies of the add requests
AddRequests ==
    [name : {<<>>, <<" ">>, <<" ", "xlb_fss_web", "\n">>, <<"api">>},
     url : {<<>>, ApiUrl},
     type : {<<"https">>},
     platform : {<<"github">>}]

\* the configurations handed to save_config
SavedConfigs ==
    {create_default_config,
     Config(<<>>, <<>>),
     Config(<<Repository(<<"my", " ", "\"", "repo", "\"", "\\">>, ApiUrl,
                         <<"https">>, <<"github">>),
              Repository(<<"api">>, ApiUrl, <<"https">>, <<"github">>)>>,
            <<default_platforms[4]>>)}

\* the texts found at the configuration path at the start
StartFiles ==
    {NoFile,
     File(SubSeq(dumps(create_default_config, 0), 1, 9)),
     File(<<"[", "]">>),
     File(<<"{", "\"", "platforms", "\"", ":", "{", "}", ",",
            "\"", "repositories", "\"", ":", "[", "]", "}">>),
     File(dumps(JDict(<<[k |-> <<"platforms">>, v |-> JDict(<<>>)]>>), 0)),
     File(dumps(create_default_config, 0))}

InitConfig ==
    /\ config_file \in StartFiles
    /\ writable \in BOOLEAN
    /\ request = NoRequest
    /\ saved = <<>>
    /\ handlers = <<>>
    /\ IdleExtract
    /\ IdleMerge
    /\ IdleBranches
    /\ IdleSort
    /\ IdleConnect

SaveConfig ==
    \E config \in SavedConfigs :
        \E r \in {save_config(config, config_file, writable)} :
            /\ config_file' = r.file
            /\ request' = [op |-> "save", success |-> r.ok, message |-> <<>>,
                           before |-> config_file, ret |-> <<>>, body |-> {}]
            /\ saved' = IF r.ok THEN <<config>> ELSE <<>>
            /\ UNCHANGED <<writable, handlers, varsExtract, varsMerge, varsBranches, varsSort, varsConnect>>

LoadConfig ==
    \E r \in {load_config(config_file, writable)} :
        /\ config_file' = r.file
        /\ request' = [op |-> "load", success |-> TRUE, message |-> <<>>,
                       before |-> config_file, ret |-> <<r.config>>, body |-> {}]
        /\ saved' = saved
        /\ UNCHANGED <<writable, handlers, varsExtract, varsMerge, varsBranches, varsSort, varsConnect>>

\* the file holds no more than MaxRepos repositories
WithinMaxRepos(file) ==
    \E parsed \in {loads(file.text)} :
        \E n \in 0..MaxRepos :
            n = IF file.exists /\ parsed.ok /\ parsed.val.t = "dict"
                THEN Len(dict_get(parsed.val, <<"repositories">>, JList(<<>>)).items)
                ELSE 0

AddRepository ==
    \E data \in AddRequests :
        \E r \in {add_repository(data, config_file, writable)} :
            /\ WithinMaxRepos(r.file)
            /\ config_file' = r.file
            /\ request' = [op |-> "add", success |-> r.success, message |-> r.message,
                           before |-> config_file, ret |-> <<>>,
                           body |-> {"success", "message"}]
            /\ saved' = <<>>
            /\ UNCHANGED <<writable, handlers, varsExtract, varsMerge, varsBranches, varsSort, varsConnect>>

DeleteRepository ==
    \E index \in (-1)..MaxRepos :
        \E r \in {delete_repository(index, config_file, writable)} :
            /\ config_file' = r.file
            /\ request' = [op |-> "delete", success |-> r.success, message |-> r.message,
                           before |-> config_file, ret |-> <<>>,
                           body |-> {"success", "message"}]
            /\ saved' = <<>>
            /\ UNCHANGED <<writable, handlers, varsExtract, varsMerge, varsBranches, varsSort, varsConnect>>

NextConfig ==
    \/ SaveConfig
    \/ LoadConfig
    \/ AddRepository
    \/ DeleteRepository

SpecConfig == InitConfig /\ [][NextConfig]_vars

---------------------------------------------------------------------------
(* Claims about the configuration file *)

\* the value the file holds, when it holds one
Stored(file) == loads(file.text).val

HoldsDefaults(file) ==
    file.exists /\ loads(file.text).ok /\ Stored(file) = create_default_config

\* load_config has just returned
Loaded == request.op = "load"

\* a save_config call reported success and only load_config ran since
RoundTrip ==
    (Loaded /\ saved # <<>>) =>
        /\ dict_get(request.ret[1], <<"repositories">>, JNone)
               = dict_get(saved[1], <<"repositories">>, JNone)
        /\ dict_get(request.ret[1], <<"platforms">>, JNone)
               = dict_get(saved[1], <<"platforms">>, JNone)

\* The statement of C8 as written: load_config on a missing file writes the
\* defaults, whatever the configuration path allows.
C8_Original ==
    /\ RoundTrip
    /\ (Loaded /\ ~request.before.exists) =>
           /\ request.ret[1] = create_default_config
           /\ HoldsDefaults(config_file)
           /\ load_config(config_file, writable).config = create_default_config

\* C8: a load_config after a save_config(C) that reported success, with no
\* write in between, returns C's repositories and platforms; load_config on a
\* missing file returns the built-in defaults and, where the path can be
\* written, leaves them in the file (where it cannot, no file is created);
\* in both cases a second load_config returns the same defaults.
C8_SaveLoadRoundTrip ==
    /\ RoundTrip
    /\ (Loaded /\ ~request.before.exists) =>
           /\ request.ret[1] = create_default_config
           /\ writable => HoldsDefaults(config_file)
           /\ ~writable => ~config_file.exists
           /\ load_config(config_file, writable).config = create_default_config

\* A configuration whose repository name holds quotes and a backslash was
\* saved, and load_config returned it.
C8_Witness ==
    /\ Loaded
    /\ saved # <<>>
    /\ saved[1] # create_default_config
    /\ Len(dict_get(saved[1], <<"repositories">>, JNone).items) = 2
    /\ request.ret[1] = saved[1]

\* The statement of C9: a request that is answered success=false leaves the
\* configuration file as it was before the request.
C9_RejectedLeavesFile ==
    (request.op \in {"add", "delete"} /\ ~request.success) =>
        config_file = request.before


---------------------------------------------------------------------------
(* The other configuration routes, src/app.py 767-802 and 869-901 *)

\* key in data, for the JSON values a request body can be
has_key(data, key) ==
    IF data.t = "dict" THEN KeyPos(data.items, key) # 0
    ELSE data.t = "list" /\ \E i \in 1..Len(data.items) : data.items[i] = JStr(key)

\* not data
falsy(data) == data.t = "none" \/ (data.t \in {"dict", "list"} /\ data.items = <<>>)

\* 772-782: the answer for the configuration load_config returned
config_response(loaded) ==
    IF loaded.config.t = "dict"
    THEN [success |-> TRUE, message |-> <<>>, file |-> loaded.file,
          body |-> {"success", "repositories", "platforms", "config_path"}]
    ELSE [success |-> FALSE, message |-> <<>>, file |-> loaded.file,
          body |-> {"success", "error"}]

\* GET /api/config
get_config(file, can_write) ==
    CHOOSE r \in {config_response(loaded) :
                     loaded \in {load_config(file, can_write)}} : TRUE

\* POST /api/config/save: the body is written as it came
save_config_api(data, file, can_write) ==
    IF falsy(data)
    THEN [success |-> FALSE, message |-> <<"malformed request">>, file |-> file]
    ELSE IF ~has_key(data, <<"repositories">>) \/ ~has_key(data, <<"platforms">>)
    THEN [success |-> FALSE, message |-> <<"malformed configuration">>, file |-> file]
    ELSE CHOOSE r \in
             {saved_response(written, <<"configuration saved">>,
                             <<"configuration not saved">>) :
                 written \in {save_config(data, file, can_write)}} : TRUE

required_fields ==
    <<<<"name">>, <<"base_url">>, <<"merge_request_path">>, <<"commit_path">>,
      <<"ssh_prefix">>, <<"https_prefix">>>>

\* the first required field the platform lacks or holds blank, 0 for none
FirstBlank(platform_config) ==
    LET blank == {i \in 1..Len(required_fields) :
                     \/ KeyPos(platform_config.items, required_fields[i]) = 0
                     \/ strip(dict_get(platform_config, required_fields[i],
                                       JStr(<<>>)).s) = <<>>}
    IN  IF blank = {} THEN 0 ELSE CHOOSE i \in blank : \A j \in blank : i <= j

\* 888-899: the platform is set in the loaded configuration
platform_into(loaded, platform_key, platform_config, can_write) ==
    LET config == loaded.config
        platforms == dict_get(config, <<"platforms">>, JDict(<<>>))
    IN  IF config.t # "dict" \/ platforms.t # "dict"
        THEN [success |-> FALSE, message |-> <<"add failed: ">>, file |-> loaded.file]
        ELSE CHOOSE r \in
                 {saved_response(written, <<"platform added">>,
                                 <<"platform not added">>) :
                     written \in
                         {save_config(
                              JDict(dict_set(config.items, <<"platforms">>,
                                  JDict(dict_set(platforms.items, platform_key,
                                                 platform_config)))),
                              loaded.file, can_write)}} : TRUE

\* POST /api/config/platform
add_platform(data, file, can_write) ==
    IF strip(data.key) = <<>>
    THEN [success |-> FALSE, message |-> <<"platform key must not be empty">>,
          file |-> file]
    ELSE IF FirstBlank(data.config) # 0
    THEN [success |-> FALSE,
          message |-> <<"platform field must not be empty: ">>
                          \o required_fields[FirstBlank(data.config)],
          file |-> file]
    ELSE CHOOSE r \in
             {platform_into(loaded, strip(data.key), data.config, can_write) :
                 loaded \in {load_config(file, can_write)}} : TRUE

---------------------------------------------------------------------------
(* The configuration served over HTTP: every request is one route call *)

\* the JSON bodies posted to /api/config/save
ApiConfigs ==
    SavedConfigs
      \cup {JNone, JDict(<<>>),
            JDict(<<[k |-> <<"repositories">>, v |-> JList(<<>>)]>>),
            JList(<<JStr(<<"repositories">>), JStr(<<"platforms">>)>>)}

Gitea ==
    Platform(<<"Gitea">>, <<"gitea.com">>, <<"/", "pulls", "/">>,
             <<"/", "commit", "/">>)

\* the JSON bodies posted to /api/config/platform
PlatformRequests ==
    [key : {<<" ">>, <<" ", "gitea">>},
     config : {Gitea, JDict(<<[k |-> <<"name">>, v |-> JStr(<<"Gitea">>)]>>)}]

GetConfig ==
    \E r \in {get_config(config_file, writable)} :
        /\ config_file' = r.file
        /\ request' = [op |-> "get", success |-> r.success, message |-> r.message,
                       before |-> config_file, ret |-> <<>>, body |-> r.body]
        /\ saved' = <<>>
        /\ UNCHANGED <<writable, handlers, varsExtract, varsMerge, varsBranches, varsSort, varsConnect>>

SaveConfigApi ==
    \E data \in ApiConfigs :
        \E r \in {save_config_api(data, config_file, writable)} :
            /\ config_file' = r.file
            /\ request' = [op |-> "save_api", success |-> r.success,
                           message |-> r.message,
                           before |-> config_file, ret |-> <<>>,
                           body |-> {"success", "message"}]
            /\ saved' = <<>>
            /\ UNCHANGED <<writable, handlers, varsExtract, varsMerge, varsBranches, varsSort, varsConnect>>

AddPlatform ==
    \E data \in PlatformRequests :
        \E r \in {add_platform(data, config_file, writable)} :
            /\ config_file' = r.file
            /\ request' = [op |-> "add_platform", success |-> r.success,
                           message |-> r.message,
                           before |-> config_file, ret |-> <<>>,
                           body |-> {"success", "message"}]
            /\ saved' = <<>>
            /\ UNCHANGED <<writable, handlers, varsExtract, varsMerge, varsBranches, varsSort, varsConnect>>

NextRoutes ==
    \/ GetConfig
    \/ SaveConfigApi
    \/ AddRepository
    \/ DeleteRepository
    \/ AddPlatform

SpecRoutes == InitConfig /\ [][NextRoutes]_vars

---------------------------------------------------------------------------
(* Claims about the configuration routes *)

\* a route has answered
Answered == request.op \in {"get", "save_api", "add", "delete", "add_platform"}

\* The statement of C11, on the configuration routes: a request that fails is
\* answered with an object of exactly the keys success and message.
C11_FailureShape ==
    (Answered /\ ~request.success) => request.body = {"success", "message"}

\* the repositories the file holds, none when it holds no object
Persisted(file) ==
    CHOOSE items \in
        {IF file.exists /\ parsed.ok /\ parsed.val.t = "dict"
            /\ dict_get(parsed.val, <<"repositories">>, JList(<<>>)).t = "list"
         THEN dict_get(parsed.val, <<"repositories">>, JList(<<>>)).items
         ELSE <<>> : parsed \in {loads(file.text)}} : TRUE

\* no two of the repositories share a name or a url
Distinct(repositories) ==
    \A i, j \in 1..Len(repositories) :
        i # j =>
            /\ dict_get(repositories[i], <<"name">>, JNone)
                   # dict_get(repositories[j], <<"name">>, JNone)
            /\ dict_get(repositories[i], <<"url">>, JNone)
                   # dict_get(repositories[j], <<"url">>, JNone)

\* The statement of C12: the persisted repositories keep pairwise distinct
\* names and pairwise distinct urls through every configuration request.
C12_DistinctKept ==
    \E repositories \in {Persisted(config_file)} : Distinct(repositories)

\* the last request only read the configuration: a GET /api/config, or an add
\* or a delete that was rejected
ReadOnly ==
    \/ request.op = "get"
    \/ request.op \in {"add", "delete"} /\ ~request.success

\* The statement of C21: load_config never changes a configuration file that
\* is already there; after a read-only request the file that existed before
\* it holds the same text, also when that text is malformed.
C21_ExistingFileKept ==
    (ReadOnly /\ request.before.exists) => config_file = request.before

----------------------------------------------------------------------------
(* Configuration requests handled at once, src/app.py 804-901.  The server
   gives every request its own thread and the handlers take no lock: between
   the load_config of a handler and its save_config the other handlers run.
   Reading the file and writing it are one step each. *)

\* the answer of a handler that has returned
Answer(h, success) == [h EXCEPT !.pc = "done", !.success = success]

\* the handler holds the changed configuration and has yet to save it
Holding(h, config) == [h EXCEPT !.pc = "loaded", !.held = <<config>>]

\* 820-838: add_repository up to its save_config, on the configuration loaded
add_loaded(h, config) ==
    LET name == strip(h.data.name)
        url == strip(h.data.url)
        repositories == dict_get(config, <<"repositories">>, JList(<<>>)).items
        new_repo == Repository(name, url, h.data.type, h.data.platform)
    IN  IF config.t # "dict" THEN Answer(h, FALSE)
        ELSE IF FirstClash(repositories, name, url) # 0 THEN Answer(h, FALSE)
        ELSE Holding(h, JDict(dict_set(config.items, <<"repositories">>,
                                       JList(Append(repositories, new_repo)))))

\* 853-859: delete_repository up to its save_config
delete_loaded(h, config) ==
    LET repositories == dict_get(config, <<"repositories">>, JList(<<>>)).items
    IN  IF config.t # "dict" THEN Answer(h, FALSE)
        ELSE IF h.data < 0 \/ h.data >= Len(repositories) THEN Answer(h, FALSE)
        ELSE Holding(h, JDict(dict_set(config.items, <<"repositories">>,
                                       JList(pop(repositories, h.data)))))

\* 888-893: add_platform up to its save_config
platform_loaded(h, config) ==
    LET platforms == dict_get(config, <<"platforms">>, JDict(<<>>))
    IN  IF config.t # "dict" \/ platforms.t # "dict" THEN Answer(h, FALSE)
        ELSE Holding(h, JDict(dict_set(config.items, <<"platforms">>,
                                  JDict(dict_set(platforms.items, strip(h.data.key),
                                                 h.data.config)))))

\* the request is turned away before load_config is called (817, 880, 885)
turned_away(h) ==
    CASE h.op = "add" -> strip(h.data.name) = <<>> \/ strip(h.data.url) = <<>>
      [] h.op = "platform" ->
             strip(h.data.key) = <<>> \/ FirstBlank(h.data.config) # 0
      [] OTHER -> FALSE

\* the handler after its load_config and the checks that follow it
loaded_handler(h, config) ==
    CASE h.op = "add" -> add_loaded(h, config)
      [] h.op = "platform" -> platform_loaded(h, config)
      [] OTHER -> delete_loaded(h, config)

\* the most requests handled at once
MaxHandlers == 2

ConcurrentUrl == <<"https://", "github.com", "/", "team", "/", "web", ".git">>

\* the requests that arrive together: adds that share a name or a url or
\* neither, two platforms, and a delete of the first repository
ConcurrentRequests ==
    {[op |-> "add", data |-> d, pc |-> "received", held |-> <<>>, success |-> FALSE] :
        d \in [name : {<<"api">>, <<"web">>}, url : {ApiUrl, ConcurrentUrl},
               type : {<<"https">>}, platform : {<<"github">>}]}
      \cup {[op |-> "platform", data |-> [key |-> k, config |-> Gitea],
             pc |-> "received", held |-> <<>>, success |-> FALSE] :
               k \in {<<"gitea">>, <<" ", "forge">>}}
      \cup {[op |-> "delete", data |-> 0, pc |-> "received", held |-> <<>>,
             success |-> FALSE]}

\* the configuration files the requests find
ConcurrentFiles ==
    {File(dumps(Config(<<>>, <<>>), 0)),
     File(dumps(Config(<<Repository(<<"old">>, CodeupUrl("old"), <<"ssh">>,
                                    <<"codeup.aliyun.com">>)>>, <<>>), 0))}

InitConcurrent ==
    /\ config_file \in ConcurrentFiles
    /\ writable \in BOOLEAN
    /\ request = NoRequest
    /\ saved = <<>>
    /\ handlers \in [1..MaxHandlers -> ConcurrentRequests]
    /\ IdleExtract
    /\ IdleMerge
    /\ IdleBranches
    /\ IdleSort
    /\ IdleConnect

\* handler i runs from the start of the route to the line before save_config
HandlerLoads ==
    \E i \in DOMAIN handlers :
        /\ handlers[i].pc = "received"
        /\ IF turned_away(handlers[i])
           THEN /\ handlers' = [handlers EXCEPT ![i] = Answer(handlers[i], FALSE)]
                /\ config_file' = config_file
           ELSE \E loaded \in {load_config(config_file, writable)} :
                    /\ handlers' = [handlers EXCEPT
                                       ![i] = loaded_handler(handlers[i], loaded.config)]
                    /\ config_file' = loaded.file
        /\ UNCHANGED <<writable, request, saved, varsExtract, varsMerge,
                       varsBranches, varsSort, varsConnect>>

\* handler i calls save_config on the configuration it holds and answers
HandlerSaves ==
    \E i \in DOMAIN handlers :
        /\ handlers[i].pc = "loaded"
        /\ \E written \in {save_config(handlers[i].held[1], config_file, writable)} :
               /\ handlers' = [handlers EXCEPT ![i] = Answer(handlers[i], written.ok)]
               /\ config_file' = written.file
        /\ UNCHANGED <<writable, request, saved, varsExtract, varsMerge,
                       varsBranches, varsSort, varsConnect>>

NextConcurrent == HandlerLoads \/ HandlerSaves

SpecConcurrent == InitConcurrent /\ [][NextConcurrent]_vars

\* every request has been answered
AllAnswered ==
    /\ handlers # <<>>
    /\ \A i \in DOMAIN handlers : handlers[i].pc = "done"

\* the platforms the file holds, none when it holds no object
PersistedPlatforms(file) ==
    CHOOSE items \in
        {IF file.exists /\ parsed.ok /\ parsed.val.t = "dict"
            /\ dict_get(parsed.val, <<"platforms">>, JDict(<<>>)).t = "dict"
         THEN dict_get(parsed.val, <<"platforms">>, JDict(<<>>)).items
         ELSE <<>> : parsed \in {loads(file.text)}} : TRUE

\* the entry of the add request h is in the file
EntryPersisted(h) ==
    IF h.op = "add"
    THEN \E repositories \in {Persisted(config_file)} :
             \E k \in 1..Len(repositories) :
                 repositories[k] = Repository(strip(h.data.name), strip(h.data.url),
                                              h.data.type, h.data.platform)
    ELSE \E platforms \in {PersistedPlatforms(config_file)} :
             \E k \in 1..Len(platforms) :
                 platforms[k] = [k |-> strip(h.data.key), v |-> h.data.config]

\* no delete took an entry out again
NothingDeleted ==
    \A i \in DOMAIN handlers : ~(handlers[i].op = "delete" /\ handlers[i].success)

\* The statement of C22: under every interleaving of the handlers, once all
\* requests are answered the entry of every add-repository and add-platform
\* request that was answered with success is in the configuration file, and no
\* two add-repository requests with the same name or the same url were both
\* answered with success.
C22_NoLostUpdate ==
    (AllAnswered /\ NothingDeleted) =>
        /\ \A i \in DOMAIN handlers :
               (handlers[i].op \in {"add", "platform"} /\ handlers[i].success) =>
                   EntryPersisted(handlers[i])
        /\ \A i, j \in DOMAIN handlers :
               (/\ i # j
                /\ handlers[i].op = "add" /\ handlers[i].success
                /\ handlers[j].op = "add" /\ handlers[j].success) =>
                   /\ strip(handlers[i].data.name) # strip(handlers[j].data.name)
                   /\ strip(handlers[i].data.url) # strip(handlers[j].data.url)

---------------------------------------------------------------------------
(* GitBranchChecker.__init__ and connect_repo, src/app.py 243-379.
   A path is the text of its characters; the cache directory, which the code
   places under the working directory, is the one-piece path TempDir.  The disk
   is a function from the paths that exist to their kind: "file", "dir" (a
   directory that is no repository) or "repo" (a directory Git opens). *)

GitAt == <<"g", "i", "t", "@">>
HttpsScheme == <<"h", "t", "t", "p", "s", ":", "/", "/">>
HttpScheme == <<"h", "t", "t", "p", ":", "/", "/">>
DotGit == <<".", "g", "i", "t">>

\* Only the three prefixes are looked at: a slip the claims must notice.
_is_remote_url_prefixes(url) ==
    \/ StartsWith(url, GitAt)
    \/ StartsWith(url, HttpsScheme)
    \/ StartsWith(url, HttpScheme)

\* url.startswith(('git@', 'https://', 'http://')) or '.git' in url
_is_remote_url(url) ==
    \/ StartsWith(url, GitAt)
    \/ StartsWith(url, HttpsScheme)
    \/ StartsWith(url, HttpScheme)
    \/ Contains(url, DotGit)

\* 297-304: the built-in profile
_set_default_platform ==
    JDict(<<[k |-> <<"name">>, v |-> JStr(<<"Aliyun Code">>)],
            [k |-> <<"base_url">>, v |-> JStr(<<"https://", "code.aliyun.com">>)],
            [k |-> <<"merge_request_path">>,
             v |-> JStr(<<"/", "-", "/", "merge_requests", "/">>)],
            [k |-> <<"commit_path">>, v |-> JStr(<<"/", "-", "/", "commit", "/">>)],
            [k |-> <<"ssh_prefix">>, v |-> JStr(<<"git@", "code.aliyun.com", ":">>)],
            [k |-> <<"https_prefix">>,
             v |-> JStr(<<"https://", "code.aliyun.com", "/">>)]>>)

\* if prefix and repo_input.startswith(prefix): "no" for an empty prefix or one
\* the input does not start with, "raises" for one that is no text
prefix_fits(prefix, repo_input) ==
    IF prefix.t = "none" \/ (prefix.t = "str" /\ prefix.s = <<>>) THEN "no"
    ELSE IF prefix.t \in {"list", "dict"} /\ prefix.items = <<>> THEN "no"
    ELSE IF prefix.t # "str" THEN "raises"
    ELSE IF StartsWith(repo_input, prefix.s) THEN "yes" ELSE "no"

\* 281-289: the member of platforms matches the input, by its ssh_prefix, by
\* its https_prefix or by its key occurring in the input, tried in this order
profile_fits(member, repo_input) ==
    LET ssh == prefix_fits(dict_get(member.v, <<"ssh_prefix">>, JStr(<<>>)),
                           repo_input)
        https == prefix_fits(dict_get(member.v, <<"https_prefix">>, JStr(<<>>)),
                             repo_input)
    IN  IF ssh # "no" THEN ssh
        ELSE IF https # "no" THEN https
        ELSE IF Contains(repo_input, member.k) THEN "yes" ELSE "no"

\* 275-293: the first profile of platforms, in the order the configuration
\* lists them, that matches; the built-in one when none does, when a member
\* that is reached is no dict or when a prefix that is reached is no text
RECURSIVE first_profile(_, _, _)
first_profile(members, i, repo_input) ==
    IF i > Len(members) THEN _set_default_platform
    ELSE IF members[i].v.t # "dict" THEN _set_default_platform
    ELSE IF profile_fits(members[i], repo_input) = "raises" THEN _set_default_platform
    ELSE IF profile_fits(members[i], repo_input) = "yes" THEN members[i].v
    ELSE first_profile(members, i + 1, repo_input)

_auto_identify_platform(config, repo_input) ==
    LET platforms == dict_get(config, <<"platforms">>, JDict(<<>>))
    IN  IF platforms.t # "dict" THEN _set_default_platform
        ELSE first_profile(platforms.items, 1, repo_input)

\* 262-268: the entry of repositories whose url is the input decides: the
\* profile its platform names when platforms has it, and no profile at all
\* when it names none that platforms has
configured_platform(config, repo) ==
    LET platform_key == dict_get(repo, <<"platform">>, JNone)
        platforms == dict_get(config, <<"platforms">>, JDict(<<>>))
    IN  IF platform_key.t = "none" \/ (platform_key.t = "str" /\ platform_key.s = <<>>)
        THEN <<>>
        ELSE IF platform_key.t # "str" \/ platforms.t # "dict"
        THEN <<_set_default_platform>>
        ELSE IF KeyPos(platforms.items, platform_key.s) = 0 THEN <<>>
        ELSE <<dict_get(platforms, platform_key.s, JNone)>>

\* 260-270: the entries of repositories in their order, then the profiles
RECURSIVE scan_repositories(_, _, _, _)
scan_repositories(config, repositories, i, repo_input) ==
    IF i > Len(repositories) THEN <<_auto_identify_platform(config, repo_input)>>
    ELSE IF repositories[i].t # "dict" THEN <<_set_default_platform>>
    ELSE IF dict_get(repositories[i], <<"url">>, JNone) = JStr(repo_input)
    THEN configured_platform(config, repositories[i])
    ELSE scan_repositories(config, repositories, i + 1, repo_input)

\* 257-273: platform_config after __init__, <<>> when it is still None; any
\* exception on the way sets the built-in profile
_identify_repo_platform(config, repo_input) ==
    IF config.t # "dict" THEN <<_set_default_platform>>
    ELSE LET repositories == dict_get(config, <<"repositories">>, JList(<<>>))
         IN  IF repositories.t # "list"
             THEN IF repositories.t = "dict" /\ repositories.items = <<>>
                  THEN <<_auto_identify_platform(config, repo_input)>>
                  ELSE <<_set_default_platform>>
             ELSE scan_repositories(config, repositories.items, 1, repo_input)

\* 244-251: the fields connect_repo reads and writes, and the profile
GitBranchChecker(repo_input, config) ==
    [repo_input |-> repo_input,
     repo |-> <<>>,
     is_remote |-> _is_remote_url(repo_input),
     local_path |-> <<>>,
     platform_config |-> _identify_repo_platform(config, repo_input)]

\* the path without its trailing separators, as the filesystem resolves it
RECURSIVE Norm(_)
Norm(p) ==
    IF Len(p) > 1 /\ p[Len(p)] = "/"
    THEN Norm(SubSeq(p, 1, Len(p) - 1))
    ELSE p

\* os.path.exists(p)
exists(d, p) ==
    /\ p # <<>>
    /\ Norm(p) \in DOMAIN d
    /\ (p # Norm(p) => d[Norm(p)] # "file")

\* git.Repo(p) opens p rather than raising InvalidGitRepositoryError
is_git_dir(d, p) == exists(d, p) /\ d[Norm(p)] = "repo"

\* the disk with a k at p
Put(d, p, k) == [q \in DOMAIN d \cup {p} |-> IF q = p THEN k ELSE d[q]]

\* os.makedirs(p, exist_ok=True)
makedirs(d, p) == IF p \in DOMAIN d THEN d ELSE Put(d, p, "dir")

\* shutil.rmtree(p): p and everything below it
rmtree(d, p) ==
    [q \in {q \in DOMAIN d :
               q # Norm(p) /\ ~StartsWith(q, Norm(p) \o <<"/">>)} |-> d[q]]

\* url.split('/')[-1]
LastSegment(url) ==
    LET slashes == {i \in 1..Len(url) : url[i] = "/"}
    IN  IF slashes = {} THEN url
        ELSE SubSeq(url, (CHOOSE i \in slashes : \A j \in slashes : j <= i) + 1,
                    Len(url))

\* 334: the name of the cache directory
repo_name(url) == Replace(LastSegment(url), DotGit, <<>>)

\* os.path.join(os.getcwd(), 'temp_repos')
TempDir == <<"temp_repos">>

\* os.path.join(a, b) for a b that does not start with a separator
join(a, b) == a \o <<"/">> \o b

\* the working copies g without those at p or below it
Forget(g, p) ==
    [q \in {q \in DOMAIN g :
               q # Norm(p) /\ ~StartsWith(q, Norm(p) \o <<"/">>)} |-> g[q]]

\* 365-375: git.Repo.clone_from(self.repo_input, self.local_path) on the disk
\* d; the clone has the one remote it was made from
clone_from(c, d, o, g) ==
    IF o = "ok"
    THEN [checker |-> [c EXCEPT !.repo = c.local_path],
          ret |-> [success |-> TRUE,
                   message |-> <<"remote repository cloned to: ">> \o c.local_path[1]],
          disk |-> Put(makedirs(d, TempDir), Norm(c.local_path[1]), "repo"),
          copies |-> Put(g, Norm(c.local_path[1]), <<c.repo_input>>),
          fetched |-> <<[op |-> "clone", url |-> c.repo_input, outcome |-> o]>>]
    ELSE IF o = "denied"
    THEN [checker |-> c,
          ret |-> [success |-> FALSE, message |-> <<"SSH authentication failed">>],
          disk |-> d, copies |-> g,
          fetched |-> <<[op |-> "clone", url |-> c.repo_input, outcome |-> o]>>]
    ELSE [checker |-> c,
          ret |-> [success |-> FALSE, message |-> <<"Git operation failed: ">>],
          disk |-> d, copies |-> g,
          fetched |-> <<[op |-> "clone", url |-> c.repo_input, outcome |-> o]>>]

\* The loop ends at the first fetch that fails: a slip the claims must notice.
fetch_until_failure(urls, answers) ==
    [i \in 1..Len(SelectSeq([k \in 1..Len(urls) |-> k],
                            LAMBDA k : \A j \in 1..(k - 1) : answers[j] = "ok"))
        |-> [op |-> "fetch", url |-> urls[i], outcome |-> answers[i]]]

\* 348-357: remote.fetch on every remote of the working copy; a
\* UnicodeDecodeError and a GitCommandError are printed and passed over
fetch_all(urls, answers) ==
    [i \in 1..Len(urls) |-> [op |-> "fetch", url |-> urls[i], outcome |-> answers[i]]]

\* 341-362: the cache directory is there already
update_cached(c, d, o, g, answers) ==
    IF is_git_dir(d, c.local_path[1])
    THEN [checker |-> [c EXCEPT !.repo = c.local_path],
          ret |-> [success |-> TRUE,
                   message |-> <<"remote repository updated at: ">> \o c.local_path[1]],
          disk |-> d, copies |-> g,
          fetched |-> fetch_all(g[Norm(c.local_path[1])], answers)]
    ELSE IF d[Norm(c.local_path[1])] = "file"
    THEN [checker |-> c,
          ret |-> [success |-> FALSE, message |-> <<"clone of remote failed: ">>],
          disk |-> d, copies |-> g, fetched |-> <<>>]
    ELSE clone_from(c, rmtree(d, c.local_path[1]), o, Forget(g, c.local_path[1]))

\* 333-341: the cache path is fixed and its parent made
cache_prepared(c, d, o, g, answers) ==
    IF exists(d, c.local_path[1]) THEN update_cached(c, d, o, g, answers)
    ELSE clone_from(c, d, o, g)

_clone_or_fetch_remote(c, d, o, g, answers) ==
    cache_prepared([c EXCEPT !.local_path =
                        <<join(TempDir, repo_name(c.repo_input))>>],
                   makedirs(d, TempDir), o, g, answers)

\* the new fields of the checker, the pair returned, the disk left behind and
\* the fetches made
connect_repo(c, d, o, g, answers) ==
    IF c.is_remote THEN _clone_or_fetch_remote(c, d, o, g, answers)
    ELSE IF ~exists(d, c.repo_input)
    THEN [checker |-> c,
          ret |-> [success |-> FALSE,
                   message |-> <<"repository path does not exist">>],
          disk |-> d, copies |-> g, fetched |-> <<>>]
    ELSE IF ~is_git_dir(d, c.repo_input)
    THEN [checker |-> c,
          ret |-> [success |-> FALSE,
                   message |-> <<"not a valid Git repository">>],
          disk |-> d, copies |-> g, fetched |-> <<>>]
    ELSE [checker |-> [c EXCEPT !.repo = <<c.repo_input>>,
                                !.local_path = <<c.repo_input>>],
          ret |-> [success |-> TRUE,
                   message |-> <<"local repository connected">>],
          disk |-> d, copies |-> g, fetched |-> <<>>]

---------------------------------------------------------------------------
(* Connecting: requests construct a checker and call connect_repo on it once *)

\* every prefix of the rule and two that fall short of one, before an empty
\* or one-letter name, bare or ending in .git or in a separator; a path that
\* stops short of .git and one that holds .git in its middle
RepoInputs ==
    {p \o m \o x :
        p \in {<<>>, <<"/">>, GitAt, HttpScheme, HttpsScheme,
               <<"h", "t", "t", "p", ":", "/">>},
        m \in {<<>>, <<"r">>},
        x \in {<<>>, DotGit, <<"/">>}}
      \cup {<<"/", "r", ".", "g", "i">>, DotGit \o <<"/", "r">>}

\* paths that may be there before the first request
LocalPaths ==
    {<<"/", "r">>, <<"/", "r", ".", "g", "i", "t">>, <<"/", "r", ".", "g", "i">>,
     <<"h", "t", "t", "p", ":", "/", "r">>, <<"/">>}

Kinds == {"file", "dir", "repo"}

\* what the cache directory holds before the first request
Caches ==
    {<<>>, Put(<<>>, TempDir, "dir")}
        \cup {Put(Put(<<>>, TempDir, "dir"), join(TempDir, <<"r">>), k) : k \in Kinds}

\* a cache and at most one more path; the root is a directory
Disks ==
    Caches
      \cup {Put(d, p, k) : d \in Caches, p \in LocalPaths \ {<<"/">>}, k \in Kinds}
      \cup {Put(d, <<"/">>, "dir") : d \in Caches}

Origins == {"ok", "denied", "failed"}

\* the most remotes a working copy found in the cache has
MaxCacheRemotes == 2

\* how a fetch from one remote ends: well, with a GitCommandError about
\* credentials, or with a UnicodeDecodeError
FetchOutcomes == {"ok", "denied", "encoding"}

\* the remotes of a working copy found in the cache, in the order Git lists them
RemoteLists ==
    {[i \in 1..n |-> IF i = 1 THEN HttpScheme \o <<"a", "/", "r">>
                     ELSE HttpsScheme \o <<"m", "/">> \o [k \in 1..i |-> "r"]] :
        n \in 0..MaxCacheRemotes}

\* the working copies of the disk d, the one found in the cache with remotes urls
CopiesOf(d, urls) ==
    IF is_git_dir(d, join(TempDir, <<"r">>))
    THEN Put(<<>>, join(TempDir, <<"r">>), urls)
    ELSE <<>>

\* No configuration file is there and its path cannot be written, so that
\* every load_config of a request answers with the built-in defaults.
InitConnect ==
    /\ checker = <<>>
    /\ connected = <<>>
    /\ disk \in Disks
    /\ origin \in Origins
    /\ \E urls \in RemoteLists : copies = CopiesOf(disk, urls)
    /\ fetched = <<>>
    /\ config_file = NoFile
    /\ writable = FALSE
    /\ request = NoRequest
    /\ saved = <<>>
    /\ handlers = <<>>
    /\ IdleExtract
    /\ IdleMerge
    /\ IdleBranches
    /\ IdleSort

\* 243-251: a request constructs its checker for one of the inputs; __init__
\* loads the configuration
Construct(inputs) ==
    /\ \E loaded \in {load_config(config_file, writable)} :
           /\ config_file' = loaded.file
           /\ \E repo_input \in inputs :
                  checker' = <<GitBranchChecker(repo_input, loaded.config)>>
    /\ connected' = <<>>
    /\ fetched' = <<>>
    /\ UNCHANGED <<disk, origin, copies, writable, request, saved, handlers,
                   varsExtract, varsMerge, varsBranches, varsSort>>

\* the first request
NewChecker == checker = <<>> /\ Construct(RepoInputs)

ConnectRepo ==
    /\ checker # <<>>
    /\ connected = <<>>
    /\ \E answers \in [1..MaxCacheRemotes -> FetchOutcomes] :
           \E r \in {connect_repo(checker[1], disk, origin, copies, answers)} :
               /\ checker' = <<r.checker>>
               /\ connected' = <<r.ret>>
               /\ disk' = r.disk
               /\ copies' = r.copies
               /\ fetched' = r.fetched
    /\ UNCHANGED <<origin, varsExtract, varsMerge, varsBranches, varsSort,
                   varsConfig>>

NextConnect == NewChecker \/ ConnectRepo

SpecConnect == InitConnect /\ [][NextConnect]_vars

---------------------------------------------------------------------------
(* Claims about connecting *)

\* the classification rule as the specification words it
StartsWithGitAt(url) == Len(url) >= 4 /\ SubSeq(url, 1, 4) = GitAt
StartsWithHttp(url) == Len(url) >= 7 /\ SubSeq(url, 1, 7) = HttpScheme
StartsWithHttps(url) == Len(url) >= 8 /\ SubSeq(url, 1, 8) = HttpsScheme
HoldsDotGit(url) == \E i \in 1..(Len(url) - 3) : SubSeq(url, i, i + 3) = DotGit

RemoteByRule(url) ==
    StartsWithGitAt(url) \/ StartsWithHttp(url) \/ StartsWithHttps(url)
        \/ HoldsDotGit(url)

\* this step is a connect_repo call returning
Connects == checker # <<>> /\ connected = <<>> /\ connected' # <<>>

NotFound == <<"repository path does not exist">>
InvalidRepository == <<"not a valid Git repository">>

\* C10: connect_repo takes its input for remote exactly when the input starts
\* with git@, http:// or https:// or contains .git; on an input taken for
\* local it fails with NotFound when the path does not exist, fails with
\* InvalidRepository when the path exists and is no Git working copy, and
\* otherwise succeeds with repo opened at the input and local_path equal to
\* the input; in all three cases the disk is left exactly as it was.
C10_ConnectLocal ==
    [][Connects =>
        /\ checker[1].is_remote = RemoteByRule(checker[1].repo_input)
        /\ ~RemoteByRule(checker[1].repo_input) =>
               /\ disk' = disk
               /\ ~exists(disk, checker[1].repo_input) =>
                      /\ ~connected'[1].success
                      /\ connected'[1].message = NotFound
               /\ (exists(disk, checker[1].repo_input)
                      /\ disk[Norm(checker[1].repo_input)] # "repo") =>
                      /\ ~connected'[1].success
                      /\ connected'[1].message = InvalidRepository
               /\ (exists(disk, checker[1].repo_input)
                      /\ disk[Norm(checker[1].repo_input)] = "repo") =>
                      /\ connected'[1].success
                      /\ checker'[1].local_path = <<checker[1].repo_input>>
                      /\ checker'[1].repo = <<checker[1].repo_input>>]_vars

\* The working copy at http:/r, a path that only resembles a URL, was opened
\* in place while the cache directory stayed absent.
C10_Witness ==
    /\ checker # <<>>
    /\ connected # <<>>
    /\ checker[1].repo_input = <<"h", "t", "t", "p", ":", "/", "r">>
    /\ ~checker[1].is_remote
    /\ connected[1].success
    /\ checker[1].local_path = <<checker[1].repo_input>>
    /\ disk = Put(<<>>, checker[1].repo_input, "repo")


---------------------------------------------------------------------------
(* The cache of remote repositories over several requests *)

\* two urls with the last segment r on different hosts, one that ends in a
\* separator, one whose last segment is .git, and one more
CacheInputs ==
    {HttpScheme \o <<"a", "/", "r">>,
     HttpsScheme \o <<"b", "/", "r">> \o DotGit,
     HttpScheme \o <<"a", "/", "r", "/">>,
     HttpsScheme \o <<"b", "/">> \o DotGit,
     GitAt \o <<"q">>}

InitCache ==
    /\ checker = <<>>
    /\ connected = <<>>
    /\ disk \in Caches
    /\ origin \in Origins
    /\ \E urls \in RemoteLists : copies = CopiesOf(disk, urls)
    /\ fetched = <<>>
    /\ config_file = NoFile
    /\ writable = FALSE
    /\ request = NoRequest
    /\ saved = <<>>
    /\ handlers = <<>>
    /\ IdleExtract
    /\ IdleMerge
    /\ IdleBranches
    /\ IdleSort

\* a request for a remote repository, the first or after another was answered
NextRequest ==
    /\ checker = <<>> \/ connected # <<>>
    /\ Construct(CacheInputs)

NextCache == NextRequest \/ ConnectRepo

SpecCache == InitCache /\ [][NextCache]_vars

---------------------------------------------------------------------------
(* Claims about the cache *)

AuthenticationFailure == <<"SSH authentication failed">>

\* The statement of C13: when a clone or a fetch of connect_repo failed on
\* credentials, connect_repo returns failure with the authentication message.
C13_AuthSurfaced ==
    (connected # <<>>
        /\ \E i \in 1..Len(fetched) : fetched[i].outcome = "denied") =>
        /\ ~connected[1].success
        /\ connected[1].message = AuthenticationFailure

\* the cache path of the checker's input
CachePath == join(TempDir, repo_name(checker[1].repo_input))

\* this step is a connect_repo call that finds a working copy at the cache path
Updates ==
    /\ Connects
    /\ checker[1].is_remote
    /\ is_git_dir(makedirs(disk, TempDir), CachePath)

\* C14: when connect_repo finds a working copy with remotes r1..rn at the cache
\* path, it fetches from every one of them exactly once and in their order,
\* whichever of the fetches fail with an encoding error or a Git command
\* error; the call succeeds and the cache directory is left as it was.
C14_EveryRemoteFetched ==
    [][Updates =>
        /\ Len(fetched') = Len(copies[Norm(CachePath)])
        /\ \A i \in 1..Len(fetched') :
               /\ fetched'[i].op = "fetch"
               /\ fetched'[i].url = copies[Norm(CachePath)][i]
        /\ connected'[1].success
        /\ disk' = disk
        /\ copies' = copies]_vars

\* The fetch from the first of two remotes ended with an encoding error, the
\* one from the second was made all the same and failed on credentials, and
\* the call succeeded.
C14_Witness ==
    /\ connected # <<>>
    /\ connected[1].success
    /\ Len(fetched) = 2
    /\ fetched[1].outcome = "encoding"
    /\ fetched[2].op = "fetch"
    /\ fetched[2].outcome = "denied"
    /\ Norm(checker[1].local_path[1]) \in DOMAIN disk

\* the last path segment of the url, without a .git at its end
SegmentName(url) ==
    IF Len(LastSegment(url)) >= 4
        /\ SubSeq(LastSegment(url), Len(LastSegment(url)) - 3,
                  Len(LastSegment(url))) = DotGit
    THEN SubSeq(LastSegment(url), 1, Len(LastSegment(url)) - 4)
    ELSE LastSegment(url)

\* q is neither p nor below it
Outside(q, p) == q # p /\ ~StartsWith(q, p \o <<"/">>)

\* The statement of C19: connect_repo on a remote input works in the child of
\* the cache root named by the last segment of the url without its trailing
\* .git, and leaves the cache root and everything outside that child as it was.
C19_OnlyOwnDirectory ==
    [][(Connects /\ checker[1].is_remote) =>
        /\ checker'[1].local_path
               = <<join(TempDir, SegmentName(checker[1].repo_input))>>
        /\ SegmentName(checker[1].repo_input) # <<>>
        /\ \A q \in DOMAIN disk :
               Outside(q, join(TempDir, SegmentName(checker[1].repo_input))) =>
                   q \in DOMAIN disk' /\ disk'[q] = disk[q]]_vars

\* The statement of C20: the working copy a successful request for a remote
\* url opens, when it is as a clone left it, was cloned from that url.
C20_ServedFromOwnClone ==
    (connected # <<>> /\ connected[1].success /\ checker[1].is_remote
        /\ Len(copies[Norm(checker[1].local_path[1])]) = 1) =>
        copies[Norm(checker[1].local_path[1])][1] = checker[1].repo_input

----------------------------------------------------------------------------
(* Platforms: requests construct a checker over the configuration on disk *)

Profile(name, ssh_prefix, https_prefix) ==
    JDict(<<[k |-> <<"name">>, v |-> JStr(name)],
            [k |-> <<"ssh_prefix">>, v |-> JStr(ssh_prefix)],
            [k |-> <<"https_prefix">>, v |-> JStr(https_prefix)]>>)

\* the profile of the host with the one-letter key
HostProfile(key) ==
    [k |-> key,
     v |-> Profile(key, GitAt \o key \o <<":">>, HttpsScheme \o key \o <<"/">>)]

\* the platforms of a configuration file, in the order the file lists them
PlatformTables ==
    {<<>>,
     <<HostProfile(<<"h">>)>>,
     <<HostProfile(<<"b">>), HostProfile(<<"h">>)>>,
     <<HostProfile(<<"h">>), HostProfile(<<"b">>)>>,
     <<[k |-> <<"b">>, v |-> JStr(<<"x">>)], HostProfile(<<"h">>)>>,
     <<[k |-> <<"r">>, v |-> Profile(<<"r">>, <<>>, <<>>)], HostProfile(<<"b">>)>>}

\* the repository the configuration file may list
ListedUrl == GitAt \o <<"b", ":", "r">>

\* the repositories of a configuration file: the platform of the entry is one
\* of the table, one that no table has, empty or not there
RepositoryLists ==
    {<<>>,
     <<JDict(<<[k |-> <<"url">>, v |-> JStr(ListedUrl)]>>)>>,
     <<JStr(ListedUrl)>>}
      \cup {<<JDict(<<[k |-> <<"url">>, v |-> JStr(ListedUrl)],
                      [k |-> <<"platform">>, v |-> JStr(key)]>>)>> :
               key \in {<<"h">>, <<"b">>, <<"z">>, <<>>}}

PlatformInputs ==
    {ListedUrl,
     GitAt \o <<"h", ":", "r">>,
     HttpsScheme \o <<"b", "/", "r">>,
     HttpScheme \o <<"a", "/", "r">>,
     <<"/", "r">>,
     <<"/", "a">>}

\* the file json.dump leaves for a configuration
FileOf(config) == [exists |-> TRUE, text |-> dumps(config, 0)]

InitPlatform ==
    /\ checker = <<>>
    /\ connected = <<>>
    /\ disk = <<>>
    /\ origin = "ok"
    /\ copies = <<>>
    /\ fetched = <<>>
    /\ \/ \E repositories \in RepositoryLists, platforms \in PlatformTables :
              config_file = FileOf(Config(repositories, platforms))
       \/ config_file = FileOf(JList(<<>>))
    /\ writable = FALSE
    /\ request = NoRequest
    /\ saved = <<>>
    /\ handlers = <<>>
    /\ IdleExtract
    /\ IdleMerge
    /\ IdleBranches
    /\ IdleSort

\* every request constructs its own checker
Identify == Construct(PlatformInputs)

NextPlatform == Identify

SpecPlatform == InitPlatform /\ [][NextPlatform]_vars

\* the configuration __init__ loaded for the checker
LoadedConfig == load_config(config_file, writable).config

\* the members of a JSON value that has members
Members(v) == IF v.t \in {"dict", "list"} THEN v.items ELSE <<>>

\* the platforms of the loaded configuration
KnownProfiles ==
    IF LoadedConfig.t = "dict"
    THEN Members(dict_get(LoadedConfig, <<"platforms">>, JDict(<<>>)))
    ELSE <<>>

\* the platform keys of the configured entries whose url is the input
ExplicitKeys(repo_input) ==
    IF LoadedConfig.t # "dict" THEN {}
    ELSE LET repositories ==
                 Members(dict_get(LoadedConfig, <<"repositories">>, JList(<<>>)))
         IN  {dict_get(repositories[i], <<"platform">>, JNone).s :
                 i \in {j \in 1..Len(repositories) :
                           /\ repositories[j].t = "dict"
                           /\ dict_get(repositories[j], <<"url">>, JNone)
                                  = JStr(repo_input)
                           /\ dict_get(repositories[j], <<"platform">>, JNone).t
                                  = "str"}}

\* the positions of the known profiles the input matches
Matching(repo_input) ==
    {i \in 1..Len(KnownProfiles) :
        /\ KnownProfiles[i].v.t = "dict"
        /\ \/ \E key \in {<<"ssh_prefix">>, <<"https_prefix">>} :
                  /\ dict_get(KnownProfiles[i].v, key, JNone).t = "str"
                  /\ dict_get(KnownProfiles[i].v, key, JNone).s # <<>>
                  /\ StartsWith(repo_input, dict_get(KnownProfiles[i].v, key, JNone).s)
           \/ Contains(repo_input, KnownProfiles[i].k)}

\* the profile the rule names for the input
ProfileByRule(repo_input) ==
    LET named == {i \in 1..Len(KnownProfiles) :
                     KnownProfiles[i].k \in ExplicitKeys(repo_input)}
    IN  IF named # {}
        THEN KnownProfiles[CHOOSE i \in named : TRUE].v
        ELSE IF Matching(repo_input) # {}
        THEN KnownProfiles[CHOOSE i \in Matching(repo_input) :
                               \A j \in Matching(repo_input) : i <= j].v
        ELSE _set_default_platform

\* C16: after construction platform_config is the profile the rule names for
\* the input and the loaded configuration (the one the configured entry names,
\* else the first known profile that matches, else the built-in one), and is
\* never left unset.
C16_AlwaysProfile ==
    checker # <<>> =>
        checker[1].platform_config = <<ProfileByRule(checker[1].repo_input)>>

===========================================================================
